---------------------------- MODULE Spec2Model ----------------------------
(***************************************************************************)
(* MorphoLapse: the morph step (morph_faces, image_pair_generator, the     *)
(* FaceMorpher frame generators, the VideoEncoder sink) and the parallel   *)
(* align step (AlignmentWorker on a ThreadPoolExecutor), the dispatch of   *)
(* align_faces with its sequential loop, and the methods of FaceMorpher    *)
(* and FaceAligner called on their own, the landmark groups and boundary    *)
(* points of FaceDetector, the triangle warper of FaceMorpher, the          *)
(* WorkflowManager and the pipes between VideoEncoder and ffmpeg.           *)
(*                                                                         *)
(* Fourteen specifications share the module:                               *)
(*   Spec       the morph step in a quiet environment: no stop request, no *)
(*              failure of the ffmpeg process;                             *)
(*   SpecEnv    the morph step with the stop request of the workflow and   *)
(*              the failures of the ffmpeg process as environment actions; *)
(*   SpecRender the morph step over one pair of images, for every blend    *)
(*              mode, easing function and pair of pixel intensities;       *)
(*   SpecFinish the morph step over two images with a fair                 *)
(*              finish_encoding (its wait is bounded);                     *)
(*   SpecAlign  the parallel align step, one action per step of a worker   *)
(*              thread;                                                    *)
(*   SpecSeq    align_faces from its dispatch through _align_sequential,   *)
(*              with and without the overlay mode;                         *)
(*   SpecMorpher  cross_dissolve, stream_morph_frames and morph_pair       *)
(*              called with arbitrary arguments;                           *)
(*   SpecAligner  _compute_transformation called on two point sets.        *)
(*   SpecAlignFail  the parallel align step with worker tasks that raise;  *)
(*   SpecDetector  _get_boundary_points and the landmark index groups;     *)
(*   SpecWarp   _morph_triangle and warp_image over small buffers;         *)
(*   SpecWorkflow  WorkflowManager.run on up to two threads, with stop();  *)
(*   SpecEncode the frame writer and ffmpeg over bounded pipes;            *)
(*   SpecEncodeFair  the same with a fair writer and a fair ffmpeg.        *)
(*                                                                         *)
(* Images are of one colour: a pixel intensity 0..255 stands for the whole *)
(* image, so a geometric warp leaves the image as it is and only the blend *)
(* arithmetic decides a frame's content.  Blend arithmetic is exact        *)
(* (rational), the float32 rounding of numpy is not modelled.              *)
(***************************************************************************)
EXTENDS Integers, Sequences, FiniteSets, TLC

\* ------------------------------------------------------------- bounds
MaxImages == 3      \* length of the image list (at least 2)
MaxN == 3           \* frames_per_transition ranges over 0..MaxN
MaxM == 1           \* pause_frames ranges over 0..MaxM
MaxFaults == 1      \* failures of the sink the environment injects in one run
MaxAlignImages == 5 \* length of the image list of the parallel align step
MaxThreads == 2     \* num_threads ranges over 1..MaxThreads
MaxPoints == 3      \* points in a point set handed to _compute_transformation
MaxDim == 8         \* height and width of an image shape range over 0..MaxDim
MaxBuf == 3         \* side of the square buffers handed to _morph_triangle
MaxSteps == 2       \* steps added to the WorkflowManager (at least 1)
MaxFrames == 4      \* frames the morph step streams to the encoder (1..MaxFrames)
StdinCap == 2       \* frames the pipe to ffmpeg's stdin holds
StderrCap == 2      \* log records the pipe from ffmpeg's stderr holds

\* ----------------------------------------------------- program constants
PixMax == 255
MinParallel == 5    \* align_faces goes parallel when total > 4

\* ------------------------------------------------------------ landmarks
\* A landmark array: its points, whether every coordinate is finite, and
\* whether it is Python's None.
NoLandmarks == [none |-> TRUE, finite |-> TRUE, pts |-> << >>]
LmTri  == [none |-> FALSE, finite |-> TRUE,
           pts |-> << <<0, 0>>, <<4, 0>>, <<0, 4>> >>]
LmLine == [none |-> FALSE, finite |-> TRUE,
           pts |-> << <<0, 0>>, <<2, 2>>, <<4, 4>> >>]
LmNaN  == [none |-> FALSE, finite |-> FALSE,
           pts |-> << <<0, 0>>, <<4, 0>>, <<0, 4>> >>]
LandmarkSets == {NoLandmarks, LmTri, LmLine, LmNaN}

\* An input path: whether cv2.imread decodes it, and the landmarks the
\* context or the detector gives for it.
Unloadable == [loadable |-> FALSE, lm |-> NoLandmarks]
ImageKinds == {Unloadable} \cup {[loadable |-> TRUE, lm |-> l] : l \in LandmarkSets}

EasingFunction == {"linear", "ease_in", "ease_out", "ease_in_out", "cubic", "bounce"}
BlendMode == {"alpha", "additive", "multiply", "screen"}
PixelValues == {0, 100, PixMax}

Range(f) == {f[x] : x \in DOMAIN f}
Max(a, b) == IF a >= b THEN a ELSE b
Min(a, b) == IF a <= b THEN a ELSE b

\* --------------------------------------------------- FaceMorpher (pure)
\* ApplyEasing with the last arc of the bounce ending at 0.9375 + 1/64.
ApplyEasing_lowbounce(tn, td, e) ==
    CASE e = "linear" -> <<tn, td>>
      [] e = "ease_in" -> <<tn * tn, td * td>>
      [] e = "ease_out" -> <<td * td - (td - tn) * (td - tn), td * td>>
      [] e = "ease_in_out" ->
            IF 2 * tn < td THEN <<2 * tn * tn, td * td>>
            ELSE <<td * td - 2 * (td - tn) * (td - tn), td * td>>
      [] e = "cubic" -> <<tn * tn * tn, td * td * td>>
      [] e = "bounce" ->
            IF 11 * tn < 4 * td THEN <<121 * tn * tn, 16 * td * td>>
            ELSE IF 11 * tn < 8 * td
              THEN <<(11 * tn - 6 * td) * (11 * tn - 6 * td) + 12 * td * td, 16 * td * td>>
            ELSE IF 11 * tn < 10 * td
              THEN <<(11 * tn - 9 * td) * (11 * tn - 9 * td) + 15 * td * td, 16 * td * td>>
            ELSE <<(22 * tn - 21 * td) * (22 * tn - 21 * td) + 60 * td * td, 64 * td * td>>
      [] OTHER -> <<tn, td>>

\* _apply_easing on t = tn/td, 0 <= tn <= td, as a fraction <<num, den>>.
ApplyEasing(tn, td, e) ==
    CASE e = "linear" -> <<tn, td>>
      [] e = "ease_in" -> <<tn * tn, td * td>>
      [] e = "ease_out" -> <<td * td - (td - tn) * (td - tn), td * td>>
      [] e = "ease_in_out" ->
            IF 2 * tn < td THEN <<2 * tn * tn, td * td>>
            ELSE <<td * td - 2 * (td - tn) * (td - tn), td * td>>
      [] e = "cubic" -> <<tn * tn * tn, td * td * td>>
      [] e = "bounce" ->
            IF 11 * tn < 4 * td THEN <<121 * tn * tn, 16 * td * td>>
            ELSE IF 11 * tn < 8 * td
              THEN <<(11 * tn - 6 * td) * (11 * tn - 6 * td) + 12 * td * td, 16 * td * td>>
            ELSE IF 11 * tn < 10 * td
              THEN <<(11 * tn - 9 * td) * (11 * tn - 9 * td) + 15 * td * td, 16 * td * td>>
            ELSE <<(22 * tn - 21 * td) * (22 * tn - 21 * td) + 63 * td * td, 64 * td * td>>
      [] OTHER -> <<tn, td>>

\* np.clip(x, 0, 1) * 255 then astype(uint8), on x = num/den in pixel units.
ClipToByte(num, den) ==
    IF num <= 0 THEN 0
    ELSE IF num >= PixMax * den THEN PixMax
    ELSE num \div den

\* BlendImages with the two weights of the alpha mode exchanged.
BlendImages_swapped(p1, p2, a, mode) ==
    LET num == a[1]
        den == a[2]
    IN CASE mode = "alpha" -> ClipToByte(num * p1 + (den - num) * p2, den)
         [] mode = "additive" -> ClipToByte(Min(den * p1 + num * p2, PixMax * den), den)
         [] mode = "multiply" ->
               ClipToByte(((den - num) * p1 + num * PixMax) * p2, den * PixMax)
         [] mode = "screen" ->
               ClipToByte(PixMax * den - ((den - num) * (PixMax - p1) + num * (PixMax - p2)), den)
         [] OTHER -> ClipToByte((den - num) * p1 + num * p2, den)

\* _blend_images on two one-colour images p1, p2 at alpha = a[1]/a[2].
BlendImages(p1, p2, a, mode) ==
    LET num == a[1]
        den == a[2]
    IN CASE mode = "alpha" -> ClipToByte((den - num) * p1 + num * p2, den)
         [] mode = "additive" -> ClipToByte(Min(den * p1 + num * p2, PixMax * den), den)
         [] mode = "multiply" ->
               ClipToByte(((den - num) * p1 + num * PixMax) * p2, den * PixMax)
         [] mode = "screen" ->
               ClipToByte(PixMax * den - ((den - num) * (PixMax - p1) + num * (PixMax - p2)), den)
         [] OTHER -> ClipToByte((den - num) * p1 + num * p2, den)

\* FrameAlpha dividing by the number of frames: the last frame stops short
\* of the second image.
FrameAlpha_short(i, n) == <<i, Max(1, n)>>

\* alpha of frame i of n: i / max(1, n - 1), as the pair <<i, max(1, n-1)>>.
FrameAlpha(i, n) == <<i, Max(1, n - 1)>>

\* _morph_frame on one-colour images: the warps keep the colour, the blend
\* is taken at the eased alpha in the configured mode.
MorphFrame(p1, p2, i, n, e, mode) ==
    LET t == FrameAlpha(i, n)
    IN BlendImages(p1, p2, ApplyEasing(t[1], t[2], e), mode)

\* One frame of stream_cross_dissolve: always the alpha formula, no clip.
CrossDissolveFrame(p1, p2, i, n, e) ==
    LET t == FrameAlpha(i, n)
        a == ApplyEasing(t[1], t[2], e)
    IN ((a[2] - a[1]) * p1 + a[1] * p2) \div a[2]

\* _validate_inputs: the images of a pair are decoded arrays here, so only
\* the landmark checks can fail.
ValidateInputs(l1, l2) ==
    /\ ~l1.none /\ ~l2.none
    /\ Len(l1.pts) = Len(l2.pts)
    /\ l1.finite /\ l2.finite

Cross(o, p, q) == (p[1] - o[1]) * (q[2] - o[2]) - (p[2] - o[2]) * (q[1] - o[1])
Collinear(pts) ==
    \A i, j, k \in 1..Len(pts) : Cross(pts[i], pts[j], pts[k]) = 0

\* avg_landmarks = (landmarks1 + landmarks2) / 2, kept doubled: collinearity
\* does not depend on the scale.
AvgLandmarks2(l1, l2) ==
    [i \in 1..Len(l1.pts) |-> <<l1.pts[i][1] + l2.pts[i][1], l1.pts[i][2] + l2.pts[i][2]>>]

\* compute_triangulation: Delaunay raises on fewer than 3 points and on a
\* point set with no 3 non-collinear points.
TriangulationRaises(pts) == Len(pts) < 3 \/ Collinear(pts)

\* ------------------------------------------------------------- state
VARIABLES
    images,        \* the ordered image list handed to morph_faces (ImageKinds)
    N,             \* frames_per_transition
    M,             \* pause_frames
    easing,        \* MorphConfig.easing
    blend_mode,    \* MorphConfig.blend_mode
    pix,           \* pix[i]: the colour of image i
    pc,            \* position of morph_faces and of the workflow around it
    faults_left,   \* sink failures the environment may still inject
    first_image,   \* morph_faces' local first_image holds a decoded image
    g_idx,         \* image_pair_generator: enumerate index (1-based)
    g_prev,        \* image_pair_generator: prev_data (0: None)
    g_cur,         \* image_pair_generator: current_data (0: unbound)
    hold,          \* hold[i]: ImageData i exists and its _image is not None
    c_data1,       \* morph_faces' loop variable data1 (0: unbound)
    c_data2,       \* morph_faces' loop variable data2 (0: unbound)
    pair_idx,      \* morph_faces' pair_idx
    path,          \* the frame generator of the pair under way
    t_i,           \* frames of the transition emitted so far
    p_i,           \* pause frames emitted so far
    frame_count,   \* morph_faces' frame_count
    emitted,       \* the frames passed to write_frame, in call order
    dropped,       \* the calls of write_frame that wrote nothing
    enc_process,   \* VideoEncoder._process is not None
    proc,          \* the ffmpeg process: none, running, exited_ok, exited_err, killed
    stdin_open,    \* the pipe to ffmpeg's stdin is open
    should_stop,   \* WorkflowManager._should_stop
    stop_pair,     \* the pair under way when stop() was called
    total_frames,  \* 'total_frames' of the dictionary morph_faces returned (-1: none)
    al_images,     \* context.images of the align step: what each input turns out to be
    num_threads,   \* num_threads of _align_parallel
    al_pc,         \* al_pc[i]: position of the task of input i in process_image
    slot,          \* AlignmentWorker._local_detectors: slot[t] is 0 (absent) or the
                   \* detector stored there, named by the task that created it
    made,          \* made[i]: the task of input i has created a FaceDetector
    held,          \* held[i]: the detector process_image of input i works with (0: none)
    done_q,        \* finished futures as_completed has not yielded yet, oldest first
    completed,     \* completed of _align_parallel: the results stored so far
    out_of_order,  \* a future was yielded after the future of a later input
    results,       \* results of _align_parallel: results[i] is "unset" or a result
    al_phase,      \* pool: the executor runs; extracted: the context is updated
    aligned_images,\* context.aligned_images: the input each output comes from
    landmarks,     \* context.landmarks
    api_pc,        \* a function called on its own: "idle", "called", "done"
    api_call,      \* its name and its arguments
    api_ret,       \* what it returned, or that it raised
    sq_pc,         \* position in align_faces: "idle", "dispatch", "loop", "parallel",
                   \* "returned", "raised"
    sq_images,     \* context.images of align_faces: what each input turns out to be
    overlay,       \* config 'overlay_mode'
    parallel,      \* config 'parallel'
    sq_threads,    \* config 'num_threads'
    sq_idx,        \* idx of the loop of _align_sequential (1-based)
    previous,      \* previous of _align_sequential: the input whose aligned output
                   \* it holds (0: None)
    aligned_files, \* aligned_files of _align_sequential: for each file written, the
                   \* input it comes from, whether it was aligned, and the input
                   \* whose output it was composited against (0: none)
    landmarks_list,\* landmarks_list of _align_sequential: the input each entry was
                   \* detected on (0: None)
    steps,         \* WorkflowManager._steps: enabled and status of each step
    is_running,    \* WorkflowManager._is_running
    current_step_index, \* WorkflowManager._current_step_index (0-based, -1: none)
    continue_on_error,  \* the argument of run()
    wf_pc,         \* wf_pc[t]: position of thread t in run()
    wf_idx,        \* wf_idx[t]: the step of the loop of run() in thread t (1-based)
    wf_success,    \* wf_success[t]: success of run() in thread t
    wf_ret,        \* wf_ret[t]: what run() returned in thread t ("none" before)
    notified,      \* notified[t]: the success on_workflow_complete was called with
    invoked,       \* invoked[t]: the steps whose function thread t called, in order
    stop_req,      \* stop_req[t]: stop() was called while the run of thread t was on
    late,          \* late[t]: thread t called a step function after such a stop()
    mk_faults,     \* how many times os.makedirs may still fail
    stops_left,    \* how many times stop() may still be called
    pw_pc,         \* the writer of frames: "idle", "write", "blocked", "finish", "done"
    pw_left,       \* frames morph_faces has still to write
    stdin_fill,    \* frames in the pipe to ffmpeg's stdin
    stderr_fill,   \* log records in the pipe from ffmpeg's stderr
    ff_pc          \* ffmpeg: "none", "reading", "logging", "exited"

inVars == <<images, N, M, easing, blend_mode, pix>>
genVars == <<g_idx, g_prev, g_cur, hold, c_data1, c_data2>>
loopVars == <<pair_idx, path, t_i, p_i>>
outVars == <<frame_count, emitted, dropped>>
encVars == <<enc_process, proc, stdin_open>>
stopVars == <<should_stop, stop_pair>>

morphVars == <<inVars, pc, faults_left, first_image, genVars, loopVars, outVars,
               encVars, stopVars, total_frames>>

alignVars == <<al_images, num_threads, al_pc, slot, made, held, done_q, completed,
               out_of_order, results, al_phase, aligned_images, landmarks>>

apiVars == <<api_pc, api_call, api_ret>>
seqVars == <<sq_pc, sq_images, overlay, parallel, sq_threads, sq_idx, previous,
             aligned_files, landmarks_list>>
wfVars == <<steps, is_running, current_step_index, continue_on_error, wf_pc, wf_idx,
            wf_success, wf_ret, notified, invoked, stop_req, late, mk_faults, stops_left>>
pipeVars == <<pw_pc, pw_left, stdin_fill, stderr_fill, ff_pc>>

vars == <<morphVars, alignVars, apiVars, seqVars, wfVars, pipeVars>>

\* No function is being called on its own.
ApiIdle ==
    api_pc = "idle" /\ api_call = [fn |-> "none"] /\ api_ret = [status |-> "none"]

\* The threads that may call run() on the one WorkflowManager.
Runners == {1, 2}

\* No thread has called run(), no frame writer is at work.
WfIdle ==
    /\ steps = << >> /\ is_running = FALSE /\ current_step_index = -1
    /\ continue_on_error = FALSE
    /\ wf_pc = [t \in Runners |-> "idle"] /\ wf_idx = [t \in Runners |-> 1]
    /\ wf_success = [t \in Runners |-> TRUE] /\ wf_ret = [t \in Runners |-> "none"]
    /\ notified = [t \in Runners |-> "none"] /\ invoked = [t \in Runners |-> << >>]
    /\ stop_req = [t \in Runners |-> FALSE] /\ late = [t \in Runners |-> FALSE]
    /\ mk_faults = 0 /\ stops_left = 0
PipeIdle ==
    /\ pw_pc = "idle" /\ pw_left = 0 /\ stdin_fill = 0 /\ stderr_fill = 0 /\ ff_pc = "none"

\* align_faces is not running.
SeqIdle ==
    /\ sq_pc = "idle" /\ sq_images = << >> /\ overlay = FALSE /\ parallel = FALSE
    /\ sq_threads = 1 /\ sq_idx = 1 /\ previous = 0 /\ aligned_files = << >>
    /\ landmarks_list = << >>

\* The align step is not running.
AlignIdle ==
    /\ al_images = << >> /\ num_threads = 1
    /\ al_pc = << >> /\ slot = [t \in 0..0 |-> 0] /\ made = << >> /\ held = << >>
    /\ done_q = << >> /\ completed = 0 /\ out_of_order = FALSE /\ results = << >>
    /\ al_phase = "idle" /\ aligned_images = << >> /\ landmarks = << >>

NumImages == Len(images)

\* The state morph_faces starts in, for a given input.
MorphStart(imgs, n, m, e, b, px, f) ==
    /\ images = imgs /\ N = n /\ M = m /\ easing = e /\ blend_mode = b /\ pix = px
    /\ pc = "start" /\ faults_left = f /\ first_image = FALSE
    /\ g_idx = 1 /\ g_prev = 0 /\ g_cur = 0
    /\ hold = [i \in 1..Len(imgs) |-> FALSE]
    /\ c_data1 = 0 /\ c_data2 = 0 /\ pair_idx = 0
    /\ path = "none" /\ t_i = 0 /\ p_i = 0
    /\ frame_count = 0 /\ emitted = << >> /\ dropped = {}
    /\ enc_process = FALSE /\ proc = "none" /\ stdin_open = FALSE
    /\ should_stop = FALSE /\ stop_pair = 0
    /\ total_frames = -1
    /\ AlignIdle /\ ApiIdle /\ SeqIdle /\ WfIdle /\ PipeIdle

ImageLists == UNION {[1..n -> ImageKinds] : n \in 2..MaxImages}

\* The colours of the default specification: black, white, black, ...
DefaultPix(n) == [i \in 1..n |-> IF i % 2 = 1 THEN 0 ELSE PixMax]

\* The morph step with the defaults of the configuration ('linear',
\* 'alpha') and a sink that does not fail.
Init ==
    \E imgs \in ImageLists, n \in 0..MaxN, m \in 0..MaxM :
        MorphStart(imgs, n, m, "linear", "alpha", DefaultPix(Len(imgs)), 0)

\* The same with an environment that may make the sink fail.
InitEnv ==
    \E imgs \in ImageLists, n \in 0..MaxN, m \in 0..MaxM, f \in 0..MaxFaults :
        MorphStart(imgs, n, m, "linear", "alpha", DefaultPix(Len(imgs)), f)

\* One pair of decoded images, with or without landmarks, under every
\* configuration of the blend and every pair of colours.
InitRender ==
    \E l1 \in {NoLandmarks, LmTri}, l2 \in {NoLandmarks, LmTri},
       n \in 0..MaxN, m \in 0..MaxM, e \in EasingFunction, b \in BlendMode,
       p1 \in PixelValues, p2 \in PixelValues :
        MorphStart(<<[loadable |-> TRUE, lm |-> l1], [loadable |-> TRUE, lm |-> l2]>>,
                   n, m, e, b, <<p1, p2>>, 0)

\* ------------------------------------------------------- VideoEncoder
\* What one call of write_frame can do: nothing when there is no live
\* process, else write the frame, or raise inside the try and swallow it.
WriteOutcomes ==
    IF ~enc_process \/ proc # "running" THEN {"skipped"}
    ELSE IF faults_left > 0 THEN {"written", "swallowed"}
    ELSE {"written"}

\* write_frame(frame) followed by frame_count += 1.
WriteFrame(frame, outcome) ==
    /\ emitted' = Append(emitted, frame)
    /\ frame_count' = frame_count + 1
    /\ dropped' = IF outcome = "written" THEN dropped ELSE dropped \cup {Len(emitted) + 1}
    /\ faults_left' = IF outcome = "swallowed" THEN faults_left - 1 ELSE faults_left

\* The frames that reached ffmpeg's stdin, in order.
RECURSIVE SinkFrom(_)
SinkFrom(k) ==
    IF k > Len(emitted) THEN << >>
    ELSE IF k \in dropped THEN SinkFrom(k + 1)
    ELSE <<emitted[k]>> \o SinkFrom(k + 1)
Sink == SinkFrom(1)

\* What finish_encoding can meet once stdin is closed: the exit code of a
\* process that had died, else a clean exit, a failing exit or the timeout.
FinishOutcomes ==
    IF proc # "running" THEN {"failed"}
    ELSE IF faults_left > 0 THEN {"ok", "failed", "timeout"}
    ELSE {"ok"}

\* ------------------------------------------------------- morph_faces
\* The pair under way (1-based), or the last one finished when the
\* generator is running between two pairs; 0 before the first pair.
InBody == pc \in {"trans", "pause"}
PairUnderWay == IF InBody THEN pair_idx + 1 ELSE pair_idx

\* A frame as write_frame receives it: the pair it belongs to (0: the
\* initial pause), how it was made, its index in the transition or the
\* pause, the alpha and the eased alpha it was synthesized at (fractions
\* <<num, den>>; NoAlpha for a pause frame), and its colour.
NoAlpha == <<0, 0>>
Frame(pair, kind, i, a, ea, px) ==
    [pair |-> pair, kind |-> kind, i |-> i, alpha |-> a, eased |-> ea, px |-> px]

\* Lines 175-207: decode the first image, start the encoder.
StartEncoding ==
    /\ pc = "start"
    /\ IF ~images[1].loadable
         THEN /\ pc' = "raised"
              /\ UNCHANGED <<first_image, encVars, faults_left>>
         ELSE \E started \in (IF faults_left > 0 THEN BOOLEAN ELSE {TRUE}) :
                IF started
                  THEN /\ pc' = "initial_pause"
                       /\ first_image' = TRUE
                       /\ enc_process' = TRUE /\ proc' = "running" /\ stdin_open' = TRUE
                       /\ UNCHANGED faults_left
                  ELSE /\ pc' = "raised"
                       /\ faults_left' = faults_left - 1
                       /\ UNCHANGED <<first_image, encVars>>
    /\ UNCHANGED <<inVars, genVars, loopVars, outVars, stopVars, total_frames, alignVars, apiVars, seqVars, wfVars, pipeVars>>

\* Lines 217-224: one frame of the initial pause on the first image.
InitialPauseFrame ==
    /\ pc = "initial_pause" /\ p_i < M
    /\ \E o \in WriteOutcomes : WriteFrame(Frame(0, "pause", p_i, NoAlpha, NoAlpha, pix[1]), o)
    /\ p_i' = p_i + 1
    /\ UNCHANGED <<inVars, pc, first_image, genVars, pair_idx, path, t_i, encVars,
                   stopVars, total_frames, alignVars, apiVars, seqVars, wfVars, pipeVars>>

\* Lines 226-231: del first_image, then the for loop creates the generator.
InitialPauseDone ==
    /\ pc = "initial_pause" /\ p_i = M
    /\ first_image' = FALSE
    /\ p_i' = 0
    /\ pc' = "gen_load"
    /\ UNCHANGED <<inVars, faults_left, genVars, pair_idx, path, t_i, outVars, encVars,
                   stopVars, total_frames, alignVars, apiVars, seqVars, wfVars, pipeVars>>

\* ------------------------------------------------ image_pair_generator
\* Lines 55-73 and 82: decode the image at g_idx and wrap it in an
\* ImageData; without a previous image it becomes prev_data at once.
GenLoad ==
    /\ pc = "gen_load" /\ g_idx <= NumImages
    /\ IF ~images[g_idx].loadable
         THEN /\ g_idx' = g_idx + 1
              /\ UNCHANGED <<pc, g_prev, g_cur, hold>>
         ELSE /\ hold' = [hold EXCEPT ![g_idx] = TRUE]
              /\ g_cur' = g_idx
              /\ IF g_prev # 0
                   THEN pc' = "gen_yield" /\ UNCHANGED <<g_idx, g_prev>>
                   ELSE g_prev' = g_idx /\ g_idx' = g_idx + 1 /\ UNCHANGED pc
    /\ UNCHANGED <<inVars, faults_left, first_image, c_data1, c_data2, loopVars, outVars,
                   encVars, stopVars, total_frames, alignVars, apiVars, seqVars, wfVars, pipeVars>>

\* PairPath without the branch of lines 253-259: a pair without landmarks
\* reaches the morpher and fails there.
PairPath_nodissolve(l1, l2) ==
    IF l1.none \/ l2.none THEN "raise"
    ELSE IF ~ValidateInputs(l1, l2) THEN "fallback"
    ELSE IF TriangulationRaises(AvgLandmarks2(l1, l2)) THEN "raise"
    ELSE "morph"

\* The generator a pair is streamed with (lines 253-267 and
\* stream_morph_frames 364-372): "dissolve" without landmarks, "fallback"
\* when validation fails, "raise" when the triangulation raises.
PairPath(l1, l2) ==
    IF l1.none \/ l2.none THEN "dissolve"
    ELSE IF ~ValidateInputs(l1, l2) THEN "fallback"
    ELSE IF TriangulationRaises(AvgLandmarks2(l1, l2)) THEN "raise"
    ELSE "morph"

\* Line 77 and lines 231-267: the generator yields the pair, morph_faces
\* binds data1, data2 and opens the frame generator of the pair.  An
\* exception of the frame generator leaves morph_faces as it is raised.
GenYield ==
    /\ pc = "gen_yield"
    /\ c_data1' = g_prev /\ c_data2' = g_cur
    /\ path' = PairPath(images[g_prev].lm, images[g_cur].lm)
    /\ pc' = IF path' = "raise" THEN "raised" ELSE "trans"
    /\ t_i' = 0 /\ p_i' = 0
    /\ UNCHANGED <<inVars, faults_left, first_image, g_idx, g_prev, g_cur, hold, pair_idx,
                   outVars, encVars, stopVars, total_frames, alignVars, apiVars, seqVars, wfVars, pipeVars>>

\* The colour of frame i of the transition of the pair under way.
TransitionPixel(i) ==
    IF path = "morph"
      THEN MorphFrame(pix[c_data1], pix[c_data2], i, N, easing, blend_mode)
      ELSE CrossDissolveFrame(pix[c_data1], pix[c_data2], i, N, easing)

\* Lines 257-259 and 262-267: one frame of the transition.
TransFrame ==
    /\ pc = "trans" /\ t_i < N
    /\ \E o \in WriteOutcomes :
          LET a == FrameAlpha(t_i, N)
          IN WriteFrame(Frame(pair_idx + 1, IF path = "morph" THEN "morph" ELSE "dissolve",
                              t_i, a, ApplyEasing(a[1], a[2], easing), TransitionPixel(t_i)), o)
    /\ t_i' = t_i + 1
    /\ UNCHANGED <<inVars, pc, first_image, genVars, pair_idx, path, p_i, encVars,
                   stopVars, total_frames, alignVars, apiVars, seqVars, wfVars, pipeVars>>

\* TransDone leaving the transition one frame early.
TransDone_early ==
    /\ pc = "trans" /\ t_i >= N - 1
    /\ pc' = "pause"
    /\ UNCHANGED <<inVars, faults_left, first_image, genVars, loopVars, outVars, encVars,
                   stopVars, total_frames, alignVars, apiVars, seqVars, wfVars, pipeVars>>

\* The frame generator is exhausted.
TransDone ==
    /\ pc = "trans" /\ t_i = N
    /\ pc' = "pause"
    /\ UNCHANGED <<inVars, faults_left, first_image, genVars, loopVars, outVars, encVars,
                   stopVars, total_frames, alignVars, apiVars, seqVars, wfVars, pipeVars>>

\* PauseImage pausing on the first image of the pair.
PauseImage_first == c_data1

\* The image a pause frame shows (line 272: im2).
PauseImage == c_data2

\* Lines 270-273: one pause frame.
PauseFrame ==
    /\ pc = "pause" /\ p_i < M
    /\ \E o \in WriteOutcomes :
          WriteFrame(Frame(pair_idx + 1, "pause", p_i, NoAlpha, NoAlpha, pix[PauseImage]), o)
    /\ p_i' = p_i + 1
    /\ UNCHANGED <<inVars, pc, first_image, genVars, pair_idx, path, t_i, encVars,
                   stopVars, total_frames, alignVars, apiVars, seqVars, wfVars, pipeVars>>

\* Lines 275-278: the pair is done, the for loop resumes the generator.
PairDone ==
    /\ pc = "pause" /\ p_i = M
    /\ pair_idx' = pair_idx + 1
    /\ pc' = "gen_resume"
    /\ UNCHANGED <<inVars, faults_left, first_image, genVars, path, t_i, p_i, outVars,
                   encVars, stopVars, total_frames, alignVars, apiVars, seqVars, wfVars, pipeVars>>

\* Line 79: the previous image is released after the yield when idx > 1
\* (0-based idx; g_idx is 1-based).
ReleasesAfterYield(idx) == idx > 2

\* GenResume without the assignment of line 82: the generator keeps its
\* previous image, so the next pair starts from a stale one.
GenResume_keepprev ==
    /\ pc = "gen_resume"
    /\ hold' = IF ReleasesAfterYield(g_idx) THEN [hold EXCEPT ![g_cur] = FALSE] ELSE hold
    /\ g_idx' = g_idx + 1
    /\ pc' = "gen_load"
    /\ UNCHANGED <<inVars, faults_left, first_image, g_prev, g_cur, c_data1, c_data2,
                   loopVars, outVars, encVars, stopVars, total_frames, alignVars, apiVars, seqVars, wfVars, pipeVars>>

\* Lines 78-82: after the yield, release the previous image, advance.
GenResume ==
    /\ pc = "gen_resume"
    /\ hold' = IF ReleasesAfterYield(g_idx) THEN [hold EXCEPT ![g_prev] = FALSE] ELSE hold
    /\ g_prev' = g_cur
    /\ g_idx' = g_idx + 1
    /\ pc' = "gen_load"
    /\ UNCHANGED <<inVars, faults_left, first_image, g_cur, c_data1, c_data2, loopVars,
                   outVars, encVars, stopVars, total_frames, alignVars, apiVars, seqVars, wfVars, pipeVars>>

\* Lines 84-88: the list is exhausted, the last image is released and the
\* for loop of morph_faces ends.
GenEnd ==
    /\ pc = "gen_load" /\ g_idx > NumImages
    /\ hold' = IF g_prev # 0 THEN [hold EXCEPT ![g_prev] = FALSE] ELSE hold
    /\ pc' = "finish"
    /\ UNCHANGED <<inVars, faults_left, first_image, g_idx, g_prev, g_cur, c_data1, c_data2,
                   loopVars, outVars, encVars, stopVars, total_frames, alignVars, apiVars, seqVars, wfVars, pipeVars>>

\* FinishEncoding without the kill of line 177: a process that outlives
\* the wait is left running.
FinishEncoding_nokill ==
    /\ pc = "finish"
    /\ \E o \in FinishOutcomes :
          /\ proc' = CASE proc # "running" -> proc
                       [] o = "ok" -> "exited_ok"
                       [] o = "failed" -> "exited_err"
                       [] OTHER -> "running"
          /\ faults_left' = IF proc = "running" /\ o # "ok" THEN faults_left - 1
                            ELSE faults_left
          /\ pc' = IF o = "ok" THEN "returned" ELSE "raised"
          /\ total_frames' = IF o = "ok" THEN frame_count ELSE total_frames
    /\ stdin_open' = FALSE
    /\ enc_process' = FALSE
    /\ UNCHANGED <<inVars, first_image, genVars, loopVars, outVars, stopVars, alignVars, apiVars, seqVars, wfVars, pipeVars>>

\* Lines 281-313 with finish_encoding (151-183): stdin is closed, the
\* process is waited for, and _process is dropped on every path; anything
\* but a clean exit makes morph_faces raise.
FinishEncoding ==
    /\ pc = "finish"
    /\ \E o \in FinishOutcomes :
          /\ proc' = CASE proc # "running" -> proc
                       [] o = "ok" -> "exited_ok"
                       [] o = "failed" -> "exited_err"
                       [] OTHER -> "killed"
          /\ faults_left' = IF proc = "running" /\ o # "ok" THEN faults_left - 1
                            ELSE faults_left
          /\ pc' = IF o = "ok" THEN "returned" ELSE "raised"
          /\ total_frames' = IF o = "ok" THEN frame_count ELSE total_frames
    /\ stdin_open' = FALSE
    /\ enc_process' = FALSE
    /\ UNCHANGED <<inVars, first_image, genVars, loopVars, outVars, stopVars, alignVars, apiVars, seqVars, wfVars, pipeVars>>

\* ----------------------------------------------------- the environment
\* The ffmpeg process exits on its own with an error.
ProcDies ==
    /\ proc = "running" /\ faults_left > 0
    /\ pc \in {"initial_pause", "gen_load", "gen_yield", "trans", "pause", "gen_resume"}
    /\ proc' = "exited_err"
    /\ faults_left' = faults_left - 1
    /\ UNCHANGED <<inVars, pc, first_image, genVars, loopVars, outVars, enc_process,
                   stdin_open, stopVars, total_frames, alignVars, apiVars, seqVars, wfVars, pipeVars>>

\* WorkflowManager.stop (275-278), called from the UI thread while the
\* step runs.
Stop ==
    /\ ~should_stop
    /\ pc \in {"initial_pause", "gen_load", "gen_yield", "trans", "pause", "gen_resume",
               "finish"}
    /\ should_stop' = TRUE
    /\ stop_pair' = PairUnderWay
    /\ UNCHANGED <<inVars, pc, faults_left, first_image, genVars, loopVars, outVars,
                   encVars, total_frames, alignVars, apiVars, seqVars, wfVars, pipeVars>>

\* WorkflowManager._run_step and run (191-210, 252-273) once the step
\* function is over: an exception makes the step an error and ends the
\* run; else the stop flag is read before the next step.
RunLoop ==
    /\ pc \in {"returned", "raised"}
    /\ pc' = IF pc = "raised" THEN "wf_error"
             ELSE IF should_stop THEN "wf_interrupted" ELSE "wf_next"
    /\ UNCHANGED <<inVars, faults_left, first_image, genVars, loopVars, outVars, encVars,
                   stopVars, total_frames, alignVars, apiVars, seqVars, wfVars, pipeVars>>

Next ==
    \/ StartEncoding
    \/ InitialPauseFrame
    \/ InitialPauseDone
    \/ GenLoad
    \/ GenYield
    \/ TransFrame
    \/ TransDone
    \/ PauseFrame
    \/ PairDone
    \/ GenResume
    \/ GenEnd
    \/ FinishEncoding
    \/ RunLoop

NextEnv ==
    \/ Next
    \/ ProcDies
    \/ Stop

Spec == Init /\ [][Next]_vars
SpecEnv == InitEnv /\ [][NextEnv]_vars
SpecRender == InitRender /\ [][Next]_vars

\* The morph step over two images with the environment of SpecEnv.  The
\* wait of finish_encoding is bounded (timeout=600), so the call ends.
InitFinish ==
    \E imgs \in [1..2 -> ImageKinds], n \in 0..MaxN, m \in 0..MaxM, f \in 0..MaxFaults :
        MorphStart(imgs, n, m, "linear", "alpha", DefaultPix(2), f)
SpecFinish == InitFinish /\ [][NextEnv]_vars /\ WF_vars(FinishEncoding)

\* ------------------------------------------------------ align (parallel)
\* What an input of the align step turns out to be: a file cv2 cannot
\* decode, or an image that is aligned.
AlignKinds == {"unloadable", "ok"}

\* The morph step is not running.
MorphIdle ==
    /\ images = << >> /\ N = 0 /\ M = 0 /\ easing = "linear" /\ blend_mode = "alpha"
    /\ pix = << >> /\ pc = "idle" /\ faults_left = 0 /\ first_image = FALSE
    /\ g_idx = 1 /\ g_prev = 0 /\ g_cur = 0 /\ hold = << >>
    /\ c_data1 = 0 /\ c_data2 = 0 /\ pair_idx = 0
    /\ path = "none" /\ t_i = 0 /\ p_i = 0
    /\ frame_count = 0 /\ emitted = << >> /\ dropped = {}
    /\ enc_process = FALSE /\ proc = "none" /\ stdin_open = FALSE
    /\ should_stop = FALSE /\ stop_pair = 0
    /\ total_frames = -1

Unset == [set |-> FALSE, idx |-> 0, out |-> FALSE, lm |-> FALSE]

\* _align_parallel up to the submission of the tasks (lines 184-198):
\* one result slot per input, every task queued, no detector yet.
InitAlign ==
    /\ MorphIdle /\ ApiIdle /\ SeqIdle /\ WfIdle /\ PipeIdle
    /\ \E n \in MinParallel..MaxAlignImages, t \in 1..MaxThreads :
          /\ al_images \in [1..n -> AlignKinds]
          /\ num_threads = t
          /\ al_pc = [i \in 1..n |-> "queued"]
          /\ slot = [k \in 0..(t - 1) |-> 0]
          /\ made = [i \in 1..n |-> FALSE]
          /\ held = [i \in 1..n |-> 0]
          /\ results = [i \in 1..n |-> Unset]
    /\ done_q = << >> /\ completed = 0 /\ out_of_order = FALSE
    /\ al_phase = "pool" /\ aligned_images = << >> /\ landmarks = << >>

\* The same with worker tasks that fail: process_image leaves with an
\* exception, which the future hands to future.result().
FailKinds == {"ok", "fails"}
InitAlignFail ==
    /\ MorphIdle /\ ApiIdle /\ SeqIdle /\ WfIdle /\ PipeIdle
    /\ \E n \in MinParallel..MaxAlignImages, t \in 1..MaxThreads :
          /\ al_images \in [1..n -> FailKinds]
          /\ num_threads = t
          /\ al_pc = [i \in 1..n |-> "queued"]
          /\ slot = [k \in 0..(t - 1) |-> 0]
          /\ made = [i \in 1..n |-> FALSE]
          /\ held = [i \in 1..n |-> 0]
          /\ results = [i \in 1..n |-> Unset]
    /\ done_q = << >> /\ completed = 0 /\ out_of_order = FALSE
    /\ al_phase = "pool" /\ aligned_images = << >> /\ landmarks = << >>

NumAlign == Len(al_images)

\* Line 195: the detector slot of the task of input i (idx % num_threads,
\* idx 0-based).
ThreadId(i) == (i - 1) % num_threads

\* The tuple process_image returns for input i (lines 57-97): its index,
\* whether it names an output file, whether it holds landmarks.
TaskResult(i) ==
    CASE al_images[i] = "unloadable" -> [set |-> TRUE, idx |-> i, out |-> FALSE, lm |-> FALSE]
      [] al_images[i] = "noface" -> [set |-> TRUE, idx |-> i, out |-> TRUE, lm |-> FALSE]
      [] OTHER -> [set |-> TRUE, idx |-> i, out |-> TRUE, lm |-> TRUE]

Running == {i \in 1..NumAlign : al_pc[i] \in {"check", "create", "fetch", "use"}}

\* A pool thread takes the oldest queued task and process_image loads the
\* image (lines 52-59); an image that cannot be loaded ends the task.
TaskStart(i) ==
    /\ al_phase = "pool" /\ al_pc[i] = "queued"
    /\ \A j \in 1..(i - 1) : al_pc[j] # "queued"
    /\ Cardinality(Running) < num_threads
    /\ IF al_images[i] = "unloadable"
         THEN /\ al_pc' = [al_pc EXCEPT ![i] = "done"]
              /\ done_q' = Append(done_q, i)
         ELSE /\ al_pc' = [al_pc EXCEPT ![i] = "check"]
              /\ UNCHANGED done_q
    /\ UNCHANGED <<morphVars, apiVars, seqVars, wfVars, pipeVars, al_images, num_threads, slot, made, held, completed,
                   out_of_order, results, al_phase, aligned_images, landmarks>>

\* _get_detector, line 36: the membership test.
TaskCheck(i) ==
    /\ al_pc[i] = "check"
    /\ IF slot[ThreadId(i)] = 0
         THEN al_pc' = [al_pc EXCEPT ![i] = "create"] /\ UNCHANGED held
         ELSE /\ al_pc' = [al_pc EXCEPT ![i] = "use"]
              /\ held' = [held EXCEPT ![i] = slot[ThreadId(i)]]
    /\ UNCHANGED <<morphVars, apiVars, seqVars, wfVars, pipeVars, al_images, num_threads, slot, made, done_q, completed,
                   out_of_order, results, al_phase, aligned_images, landmarks>>

\* _get_detector, lines 37-39: a detector is created and stored.
TaskCreate(i) ==
    /\ al_pc[i] = "create"
    /\ made' = [made EXCEPT ![i] = TRUE]
    /\ slot' = [slot EXCEPT ![ThreadId(i)] = i]
    /\ al_pc' = [al_pc EXCEPT ![i] = "fetch"]
    /\ UNCHANGED <<morphVars, apiVars, seqVars, wfVars, pipeVars, al_images, num_threads, held, done_q, completed,
                   out_of_order, results, al_phase, aligned_images, landmarks>>

\* _get_detector, line 40: the slot is read back.
TaskFetch(i) ==
    /\ al_pc[i] = "fetch"
    /\ held' = [held EXCEPT ![i] = slot[ThreadId(i)]]
    /\ al_pc' = [al_pc EXCEPT ![i] = "use"]
    /\ UNCHANGED <<morphVars, apiVars, seqVars, wfVars, pipeVars, al_images, num_threads, slot, made, done_q, completed,
                   out_of_order, results, al_phase, aligned_images, landmarks>>

\* Lines 63-97: the detector has been used for the landmarks (and the
\* alignment), process_image returns and the future is done.
TaskFinish(i) ==
    /\ al_pc[i] = "use"
    /\ held' = [held EXCEPT ![i] = 0]
    /\ al_pc' = [al_pc EXCEPT ![i] = "done"]
    /\ done_q' = Append(done_q, i)
    /\ UNCHANGED <<morphVars, apiVars, seqVars, wfVars, pipeVars, al_images, num_threads, slot, made, completed,
                   out_of_order, results, al_phase, aligned_images, landmarks>>

\* ResultIndex storing the results in the order the futures complete.
ResultIndex_completion(idx, nth) == nth

\* Line 204: the slot a result is stored in: the index it carries.
ResultIndex(idx, nth) == idx

\* Lines 200-212: as_completed yields the oldest finished future and its
\* result is stored; when future.result() raises (a task whose
\* process_image did not return) the slot keeps its None.
Collect ==
    /\ al_phase = "pool" /\ done_q # << >>
    /\ LET i == Head(done_q)
       IN results' = IF al_images[i] = "fails" THEN results
                     ELSE [results EXCEPT ![ResultIndex(i, completed + 1)] = TaskResult(i)]
    /\ completed' = IF al_images[Head(done_q)] = "fails" THEN completed ELSE completed + 1
    /\ out_of_order' = (\/ out_of_order
                        \/ \E j \in (Head(done_q) + 1)..NumAlign :
                              al_pc[j] = "done" /\ j \notin Range(done_q))
    /\ done_q' = Tail(done_q)
    /\ UNCHANGED <<morphVars, apiVars, seqVars, wfVars, pipeVars, al_images, num_threads, al_pc, slot, made, held,
                   al_phase, aligned_images, landmarks>>

\* Lines 215-232: the outputs and the landmarks read off the result slots,
\* from slot k on.  An output file is named by the input it was made from.
RECURSIVE AlignedFrom(_, _)
AlignedFrom(res, k) ==
    IF k > Len(res) THEN << >>
    ELSE IF res[k].set /\ res[k].out THEN <<res[k].idx>> \o AlignedFrom(res, k + 1)
    ELSE AlignedFrom(res, k + 1)

RECURSIVE LandmarksFrom(_, _)
LandmarksFrom(res, k) ==
    IF k > Len(res) THEN << >>
    ELSE IF ~res[k].set THEN <<[src |-> 0, present |-> FALSE]>> \o LandmarksFrom(res, k + 1)
    ELSE IF res[k].out
      THEN <<[src |-> res[k].idx, present |-> res[k].lm]>> \o LandmarksFrom(res, k + 1)
    ELSE LandmarksFrom(res, k + 1)

\* Lines 214-236: every future was yielded, the executor is shut down and
\* the context is updated.
Extract ==
    /\ al_phase = "pool"
    /\ done_q = << >> /\ \A i \in 1..NumAlign : al_pc[i] = "done"
    /\ aligned_images' = AlignedFrom(results, 1)
    /\ landmarks' = LandmarksFrom(results, 1)
    /\ al_phase' = "extracted"
    /\ UNCHANGED <<morphVars, apiVars, seqVars, wfVars, pipeVars, al_images, num_threads, al_pc, slot, made, held, done_q,
                   completed, out_of_order, results>>

NextAlign ==
    \/ \E i \in 1..NumAlign : TaskStart(i)
    \/ \E i \in 1..NumAlign : TaskCheck(i)
    \/ \E i \in 1..NumAlign : TaskCreate(i)
    \/ \E i \in 1..NumAlign : TaskFetch(i)
    \/ \E i \in 1..NumAlign : TaskFinish(i)
    \/ Collect
    \/ Extract

SpecAlign == InitAlign /\ [][NextAlign]_vars

SpecAlignFail == InitAlignFail /\ [][NextAlign]_vars

\* ------------------------------------------- FaceMorpher called directly
\* An image argument: None, an array of one dimension, or a BGR image of
\* one colour with its width and height.
ImgNone == [none |-> TRUE, ndim |-> 0, w |-> 0, h |-> 0, px |-> 0]
Img1D == [none |-> FALSE, ndim |-> 1, w |-> 0, h |-> 4, px |-> 0]
Img(w, h, px) == [none |-> FALSE, ndim |-> 3, w |-> w, h |-> h, px |-> px]
ImageArgs ==
    {ImgNone, Img1D} \cup {Img(d[1], d[2], px) : d \in {<<2, 2>>, <<4, 2>>}, px \in {0, PixMax}}

\* A landmark set of another shape than LmTri.
LmQuad == [none |-> FALSE, finite |-> TRUE,
           pts |-> << <<0, 0>>, <<4, 0>>, <<0, 4>>, <<4, 4>> >>]
LandmarkArgs == LandmarkSets \cup {LmQuad}

Raised == [status |-> "raised", frames |-> << >>]
Returned(frames) == [status |-> "returned", frames |-> frames]

\* A frame a FaceMorpher method returns: its shape, how it was made, its
\* colour.
OutFrame(im, kind, px) == [ndim |-> im.ndim, w |-> im.w, h |-> im.h, kind |-> kind, px |-> px]

\* _validate_inputs with its image checks (lines 164-170) before the
\* landmark checks.
ValidateAll(im1, im2, l1, l2) ==
    /\ ~im1.none /\ ~im2.none
    /\ im1.ndim >= 2 /\ im2.ndim >= 2
    /\ ValidateInputs(l1, l2)

\* Whether the float conversion and the resize of a cross-fade go through
\* (lines 450-455 and 518-521): astype needs an array, and the resize to
\* (shape[1], shape[0]) needs two images.
SameShape(im1, im2) == im1.ndim = im2.ndim /\ im1.w = im2.w /\ im1.h = im2.h
CanCrossFade(im1, im2) ==
    /\ ~im1.none /\ ~im2.none
    /\ SameShape(im1, im2) \/ (im1.ndim >= 2 /\ im2.ndim >= 2)

\* CrossDissolve without the resize of line 455: the frames take the shape
\* of image2.
CrossDissolve_unresized(im1, im2, n, e) ==
    IF ~CanCrossFade(im1, im2) THEN Raised
    ELSE Returned([k \in 1..n |->
                     OutFrame(im2, "dissolve", CrossDissolveFrame(im1.px, im2.px, k - 1, n, e))])

\* stream_cross_dissolve and cross_dissolve (424-461): n frames of the
\* shape of image1.
CrossDissolve(im1, im2, n, e) ==
    IF ~CanCrossFade(im1, im2) THEN Raised
    ELSE Returned([k \in 1..n |->
                     OutFrame(im1, "dissolve", CrossDissolveFrame(im1.px, im2.px, k - 1, n, e))])

\* stream_morph_frames (349-391), run to its end.
StreamMorphFrames(im1, im2, l1, l2, n, e, mode) ==
    IF ~ValidateAll(im1, im2, l1, l2) THEN CrossDissolve(im1, im2, n, e)
    ELSE IF TriangulationRaises(AvgLandmarks2(l1, l2)) THEN Raised
    ELSE Returned([k \in 1..n |->
                     OutFrame(im1, "morph", MorphFrame(im1.px, im2.px, k - 1, n, e, mode))])

\* _simple_blend (516-523) at alpha = a[1]/a[2]: no easing, no clip.
SimpleBlend(im1, im2, a) ==
    IF ~CanCrossFade(im1, im2) THEN Raised
    ELSE Returned(<<OutFrame(im1, "dissolve",
                             ((a[2] - a[1]) * im1.px + a[1] * im2.px) \div a[2])>>)

\* The landmarks _morph_frame triangulates when it is given no
\* triangulation (line 228), scaled by the denominator of the eased alpha.
WeightedLandmarks(l1, l2, ea) ==
    [i \in 1..Len(l1.pts) |->
        <<(ea[2] - ea[1]) * l1.pts[i][1] + ea[1] * l2.pts[i][1],
          (ea[2] - ea[1]) * l1.pts[i][2] + ea[1] * l2.pts[i][2]>>]

\* morph_pair (293-318) at alpha = a[1]/a[2].
MorphPair(im1, im2, l1, l2, a, e, mode) ==
    IF ~ValidateAll(im1, im2, l1, l2) THEN SimpleBlend(im1, im2, a)
    ELSE LET ea == ApplyEasing(a[1], a[2], e)
         IN IF TriangulationRaises(WeightedLandmarks(l1, l2, ea)) THEN Raised
            ELSE Returned(<<OutFrame(im1, "morph", BlendImages(im1.px, im2.px, ea, mode))>>)

AlphaArgs == {<<0, 2>>, <<1, 2>>, <<2, 2>>}

\* A caller hands its arguments to one of the three methods.
InitMorpher ==
    /\ MorphIdle /\ AlignIdle /\ SeqIdle /\ WfIdle /\ PipeIdle
    /\ api_pc = "called" /\ api_ret = [status |-> "none"]
    /\ \E im1 \in ImageArgs, im2 \in ImageArgs, l1 \in LandmarkArgs, l2 \in LandmarkArgs,
          e \in {"linear", "bounce"} :
          \/ \E n \in 0..MaxN :
                api_call = [fn |-> "cross_dissolve", im1 |-> im1, im2 |-> im2, n |-> n,
                            easing |-> e]
          \/ \E n \in 0..MaxN :
                api_call = [fn |-> "stream_morph_frames", im1 |-> im1, im2 |-> im2,
                            l1 |-> l1, l2 |-> l2, n |-> n, easing |-> e]
          \/ \E a \in AlphaArgs :
                api_call = [fn |-> "morph_pair", im1 |-> im1, im2 |-> im2,
                            l1 |-> l1, l2 |-> l2, alpha |-> a, easing |-> e]

CallCrossDissolve ==
    /\ api_pc = "called" /\ api_call.fn = "cross_dissolve"
    /\ api_ret' = CrossDissolve(api_call.im1, api_call.im2, api_call.n, api_call.easing)
    /\ api_pc' = "done"
    /\ UNCHANGED <<morphVars, alignVars, api_call, seqVars, wfVars, pipeVars>>

CallStreamMorphFrames ==
    /\ api_pc = "called" /\ api_call.fn = "stream_morph_frames"
    /\ api_ret' = StreamMorphFrames(api_call.im1, api_call.im2, api_call.l1, api_call.l2,
                                    api_call.n, api_call.easing, "alpha")
    /\ api_pc' = "done"
    /\ UNCHANGED <<morphVars, alignVars, api_call, seqVars, wfVars, pipeVars>>

CallMorphPair ==
    /\ api_pc = "called" /\ api_call.fn = "morph_pair"
    /\ api_ret' = MorphPair(api_call.im1, api_call.im2, api_call.l1, api_call.l2,
                            api_call.alpha, api_call.easing, "alpha")
    /\ api_pc' = "done"
    /\ UNCHANGED <<morphVars, alignVars, api_call, seqVars, wfVars, pipeVars>>

NextMorpher ==
    \/ CallCrossDissolve
    \/ CallStreamMorphFrames
    \/ CallMorphPair

SpecMorpher == InitMorpher /\ [][NextMorpher]_vars

\* ------------------------------------------- FaceAligner called directly
\* The coordinates the point sets are drawn from; a point set is a
\* sequence of MaxPoints points.
Coords == {0, 2}
PointSets == [1..MaxPoints -> Coords \X Coords]

RECURSIVE SumCoord(_, _, _)
SumCoord(P, k, i) == IF i > Len(P) THEN 0 ELSE P[i][k] + SumCoord(P, k, i + 1)

\* Lines 159-162: the points minus their mean, kept as integers by the
\* factor n = Len(P): n * P[i] - sum.
Centered(P) ==
    [i \in 1..Len(P) |-> <<Len(P) * P[i][1] - SumCoord(P, 1, 1),
                           Len(P) * P[i][2] - SumCoord(P, 2, 1)>>]

\* Lines 165-166: np.std of the centered points, squared and scaled by
\* 2 * n^3: the sum of the squares of the integer coordinates.
RECURSIVE SumSquares(_, _)
SumSquares(X, i) ==
    IF i > Len(X) THEN 0 ELSE X[i][1] * X[i][1] + X[i][2] * X[i][2] + SumSquares(X, i + 1)
Spread2(P) == SumSquares(Centered(P), 1)

\* Line 171: np.dot(points1.T, points2) up to a positive factor, as
\* <<a, b, c, d>> for the matrix [[a, b], [c, d]].
RECURSIVE DotT(_, _, _, _, _)
DotT(X1, X2, k, l, i) ==
    IF i > Len(X1) THEN 0 ELSE X1[i][k] * X2[i][l] + DotT(X1, X2, k, l, i + 1)
CrossCovariance(X1, X2) ==
    <<DotT(X1, X2, 1, 1, 1), DotT(X1, X2, 1, 2, 1),
      DotT(X1, X2, 2, 1, 1), DotT(X1, X2, 2, 2, 1)>>

\* Lines 171-172: R = (U Vt).T for the SVD U S Vt of A.  U Vt is the
\* orthogonal polar factor of A: a rotation (A + cof A, normalised) when
\* det A > 0, a reflection (A - cof A, normalised) when det A < 0, and
\* either of the two when det A = 0, where the SVD does not determine the
\* sign of the singular vectors of the singular value 0.  R is given as an
\* integer matrix <<r11, r12, r21, r22>> to be divided by the square root
\* of norm2.
RotationPart(A) == [R |-> <<A[1] + A[4], A[3] - A[2], A[2] - A[3], A[1] + A[4]>>,
                    norm2 |-> (A[1] + A[4]) * (A[1] + A[4]) + (A[2] - A[3]) * (A[2] - A[3])]
ReflectionPart(A) == [R |-> <<A[1] - A[4], A[2] + A[3], A[2] + A[3], A[4] - A[1]>>,
                      norm2 |-> (A[1] - A[4]) * (A[1] - A[4]) + (A[2] + A[3]) * (A[2] + A[3])]
PolarFactors(A) ==
    LET det == A[1] * A[4] - A[2] * A[3]
    IN IF det > 0 THEN {RotationPart(A)}
       ELSE IF det < 0 THEN {ReflectionPart(A)}
       ELSE {RotationPart(A), ReflectionPart(A)}

\* Line 175: scale = s2 / s1, squared, as the fraction <<v2, v1>>.
TransformScale2(v1, v2) == <<v2, v1>>

\* _compute_transformation(points1, points2) (143-194): what the call can
\* end with.  A spread of zero makes line 167 or 168 divide 0 by 0: the
\* points become NaN, and np.linalg.svd either raises LinAlgError or
\* returns NaN, in which case the transform returned holds NaN.  Else the
\* transform is returned in factored form: R and norm2, the squared scale,
\* and the two centroids (times n) the translation c2 - scale * R c1 is
\* made of.
ComputeTransformation(P1, P2) ==
    IF Spread2(P1) = 0 \/ Spread2(P2) = 0
      THEN {[status |-> "LinAlgError"], [status |-> "returned", finite |-> FALSE]}
      ELSE {[status |-> "returned", finite |-> TRUE, R |-> q.R, norm2 |-> q.norm2,
             scale2 |-> TransformScale2(Spread2(P1), Spread2(P2)),
             c1 |-> <<SumCoord(P1, 1, 1), SumCoord(P1, 2, 1)>>,
             c2 |-> <<SumCoord(P2, 1, 1), SumCoord(P2, 2, 1)>>] :
            q \in PolarFactors(CrossCovariance(Centered(P1), Centered(P2)))}

\* The transform is the identity: scale 1, R the identity matrix, zero
\* translation.
IsIdentity(T) ==
    /\ T.status = "returned" /\ T.finite
    /\ T.R[1] > 0 /\ T.R[4] = T.R[1] /\ T.R[2] = 0 /\ T.R[3] = 0
    /\ T.R[1] * T.R[1] = T.norm2
    /\ T.scale2[1] = T.scale2[2]
    /\ T.c1 = T.c2

InitAligner ==
    /\ MorphIdle /\ AlignIdle /\ SeqIdle /\ WfIdle /\ PipeIdle
    /\ api_pc = "called" /\ api_ret = [status |-> "none"]
    /\ \E P1 \in PointSets, P2 \in PointSets :
          api_call = [fn |-> "_compute_transformation", points1 |-> P1, points2 |-> P2]

CallComputeTransformation ==
    /\ api_pc = "called" /\ api_call.fn = "_compute_transformation"
    /\ api_ret' \in ComputeTransformation(api_call.points1, api_call.points2)
    /\ api_pc' = "done"
    /\ UNCHANGED <<morphVars, alignVars, api_call, seqVars, wfVars, pipeVars>>

NextAligner == CallComputeTransformation

SpecAligner == InitAligner /\ [][NextAligner]_vars

\* ------------------------------------------------ align_faces (dispatch)
\* What an input of align_faces turns out to be: a file that cannot be
\* decoded, an image without a detected face, an image align_to_reference
\* aligns, or one on which align_to_reference raises (nothing catches it
\* in _align_sequential).
SeqKinds == {"unloadable", "noface", "ok", "raises"}

\* Line 159, mutated: the overlay mode does not keep the parallel path
\* away.
UseParallel_anyway(par, total, ov) == par /\ total >= MinParallel

\* Line 159: the parallel path is taken for more than four images, when
\* asked for and not in overlay mode.
UseParallel(par, total, ov) == par /\ total >= MinParallel /\ ~ov

\* align_faces up to the dispatch (lines 116-156): a non-empty list, a
\* reference with a face, the three settings read from the configuration.
InitSeq ==
    /\ MorphIdle /\ AlignIdle /\ ApiIdle /\ WfIdle /\ PipeIdle
    /\ sq_pc = "dispatch"
    /\ \E n \in 1..MaxAlignImages : sq_images \in [1..n -> SeqKinds]
    /\ overlay \in BOOLEAN /\ parallel \in BOOLEAN
    /\ sq_threads \in 1..MaxThreads
    /\ sq_idx = 1 /\ previous = 0 /\ aligned_files = << >> /\ landmarks_list = << >>

\* Lines 159-175: _align_parallel or _align_sequential.
Dispatch ==
    /\ sq_pc = "dispatch"
    /\ sq_pc' = IF UseParallel(parallel, Len(sq_images), overlay) THEN "parallel" ELSE "loop"
    /\ UNCHANGED <<morphVars, alignVars, apiVars, wfVars, pipeVars, sq_images, overlay, parallel, sq_threads,
                   sq_idx, previous, aligned_files, landmarks_list>>

\* What _warp_image composites onto (face_aligner.py line 91): the
\* previous result in overlay mode, nothing otherwise.
CompositeOnto(prev, ov) == IF ov THEN prev ELSE 0

\* An entry of landmarks_list: the input it was detected on, and whether
\* it is None.
LandmarkEntry(idx, none) == [idx |-> idx, none |-> none]

\* A file of aligned_files.
AlignedFile(idx, kind, against) == [idx |-> idx, kind |-> kind, against |-> against]

\* Lines 265-307: one turn of the loop of _align_sequential.
SeqStep ==
    /\ sq_pc = "loop" /\ sq_idx <= Len(sq_images)
    /\ LET kind == sq_images[sq_idx]
       IN CASE kind = "unloadable" ->
                 /\ sq_idx' = sq_idx + 1
                 /\ UNCHANGED <<sq_pc, previous, aligned_files, landmarks_list>>
            [] kind = "noface" ->
                 /\ aligned_files' = Append(aligned_files, AlignedFile(sq_idx, "raw", 0))
                 /\ landmarks_list' = Append(landmarks_list, LandmarkEntry(sq_idx, TRUE))
                 /\ sq_idx' = sq_idx + 1
                 /\ UNCHANGED <<sq_pc, previous>>
            [] kind = "raises" ->
                 /\ sq_pc' = "raised"
                 /\ UNCHANGED <<sq_idx, previous, aligned_files, landmarks_list>>
            [] kind = "ok" ->
                 /\ aligned_files' =
                       Append(aligned_files,
                              AlignedFile(sq_idx, "aligned", CompositeOnto(previous, overlay)))
                 /\ landmarks_list' = Append(landmarks_list, LandmarkEntry(sq_idx, FALSE))
                 /\ previous' = IF overlay THEN sq_idx ELSE previous
                 /\ sq_idx' = sq_idx + 1
                 /\ UNCHANGED sq_pc
    /\ UNCHANGED <<morphVars, alignVars, apiVars, wfVars, pipeVars, sq_images, overlay, parallel, sq_threads>>

\* Lines 309-320: the list is exhausted, the context is updated.
SeqDone ==
    /\ sq_pc = "loop" /\ sq_idx > Len(sq_images)
    /\ sq_pc' = "returned"
    /\ UNCHANGED <<morphVars, alignVars, apiVars, wfVars, pipeVars, sq_images, overlay, parallel, sq_threads,
                   sq_idx, previous, aligned_files, landmarks_list>>

NextSeq ==
    \/ Dispatch
    \/ SeqStep
    \/ SeqDone

SpecSeq == InitSeq /\ [][NextSeq]_vars

\* ------------------------------------------ FaceDetector called directly
\* list(range(a, b)), 1-indexed.
ListRange(a, b) == [k \in 1..(b - a) |-> a + k - 1]

\* The landmark groups (face_detector.py 24-31).
JAW_POINTS == ListRange(0, 17)
RIGHT_BROW_POINTS == ListRange(17, 22)
LEFT_BROW_POINTS == ListRange(22, 27)
NOSE_POINTS == ListRange(27, 35)
RIGHT_EYE_POINTS == ListRange(36, 42)
LEFT_EYE_POINTS == ListRange(42, 48)
MOUTH_POINTS == ListRange(48, 61)
INNER_MOUTH_POINTS == ListRange(61, 68)

FACE_POINTS == ListRange(17, 68)

\* ALIGN_POINTS with the jaw line in front.
ALIGN_POINTS_withjaw ==
    JAW_POINTS \o LEFT_BROW_POINTS \o RIGHT_EYE_POINTS \o LEFT_EYE_POINTS \o
    RIGHT_BROW_POINTS \o NOSE_POINTS \o MOUTH_POINTS

\* Lines 34-35.
ALIGN_POINTS ==
    LEFT_BROW_POINTS \o RIGHT_EYE_POINTS \o LEFT_EYE_POINTS \o
    RIGHT_BROW_POINTS \o NOSE_POINTS \o MOUTH_POINTS

\* The shape predictor gives 68 points.
NumLandmarks == 68

\* The landmarks of a detected face (line 162), landmark number i (from 0)
\* at <<i, y>>: the first coordinate tells which landmark a point is.
DetectedLandmarks(y) == [i \in 1..NumLandmarks |-> <<i - 1, y>>]

\* landmarks[ALIGN_POINTS] (face_aligner.py 70-74): numpy indexing with a
\* list of indices, counted from 0.
SelectPoints(lm, idxs) == [k \in 1..Len(idxs) |-> lm[idxs[k] + 1]]

\* _get_boundary_points with the last corner at (w, h - 1).
GetBoundaryPoints_wide(h, w) ==
    << <<1, 1>>, <<w - 1, 1>>, <<1, h - 1>>, <<w, h - 1>>,
       <<(w - 1) \div 2, 1>>, <<1, (h - 1) \div 2>>,
       <<(w - 1) \div 2, h - 1>>, <<w - 1, (h - 1) \div 2>> >>

\* _get_boundary_points (209-224) on a shape (h, w, ...); // and \div both
\* round down.
GetBoundaryPoints(h, w) ==
    << <<1, 1>>, <<w - 1, 1>>, <<1, h - 1>>, <<w - 1, h - 1>>,
       <<(w - 1) \div 2, 1>>, <<1, (h - 1) \div 2>>,
       <<(w - 1) \div 2, h - 1>>, <<w - 1, (h - 1) \div 2>> >>

\* A caller asks for the boundary points of a shape, or selects the
\* alignment points of a detected face.
InitDetector ==
    /\ MorphIdle /\ AlignIdle /\ SeqIdle /\ WfIdle /\ PipeIdle
    /\ api_pc = "called" /\ api_ret = [status |-> "none"]
    /\ \/ \E h \in 0..MaxDim, w \in 0..MaxDim :
             api_call = [fn |-> "_get_boundary_points", h |-> h, w |-> w]
       \/ \E y \in 0..MaxDim :
             api_call = [fn |-> "align_points", landmarks |-> DetectedLandmarks(y)]

CallGetBoundaryPoints ==
    /\ api_pc = "called" /\ api_call.fn = "_get_boundary_points"
    /\ api_ret' = [status |-> "returned", points |-> GetBoundaryPoints(api_call.h, api_call.w)]
    /\ api_pc' = "done"
    /\ UNCHANGED <<morphVars, alignVars, api_call, seqVars, wfVars, pipeVars>>

CallSelectAlignPoints ==
    /\ api_pc = "called" /\ api_call.fn = "align_points"
    /\ api_ret' = [status |-> "returned",
                   points |-> SelectPoints(api_call.landmarks, ALIGN_POINTS)]
    /\ api_pc' = "done"
    /\ UNCHANGED <<morphVars, alignVars, api_call, seqVars, wfVars, pipeVars>>

NextDetector ==
    \/ CallGetBoundaryPoints
    \/ CallSelectAlignPoints

SpecDetector == InitDetector /\ [][NextDetector]_vars

\* --------------------------------------------------- the triangle warper
\* A buffer of w x h pixels; pixel <<x, y>> is column x of row y.
Pixels(w, h) == (0..(w - 1)) \X (0..(h - 1))
Buffer(w, h, v) == [w |-> w, h |-> h, px |-> [p \in Pixels(w, h) |-> v]]

\* cv2.boundingRect of three points with whole coordinates: <<x, y, width,
\* height>>, the far edge one past the largest coordinate.
BoundingRect(tri) ==
    LET xs == {tri[i][1] : i \in 1..3}
        ys == {tri[i][2] : i \in 1..3}
        x1 == CHOOSE x \in xs : \A o \in xs : x <= o
        x2 == CHOOSE x \in xs : \A o \in xs : x >= o
        y1 == CHOOSE y \in ys : \A o \in ys : y <= o
        y2 == CHOOSE y \in ys : \A o \in ys : y >= o
    IN <<x1, y1, x2 - x1 + 1, y2 - y1 + 1>>

\* The pixels of a rectangle <<x, y, width, height>>.
RectPixels(r) == (r[1]..(r[1] + r[3] - 1)) \X (r[2]..(r[2] + r[4] - 1))

\* The rectangle cut to a buffer (lines 563-564 and 591-592); its width or
\* height may come out zero or negative.
ClipRect(r, buf) ==
    LET x1 == Max(0, r[1])
        x2 == Min(buf.w, r[1] + r[3])
        y1 == Max(0, r[2])
        y2 == Min(buf.h, r[2] + r[4])
    IN <<x1, y1, x2 - x1, y2 - y1>>

\* The mask fillConvexPoly draws (lines 554-555): the pixels in the
\* triangle or on its edges.
InTriangle(p, tri) ==
    LET c1 == Cross(tri[1], tri[2], p)
        c2 == Cross(tri[2], tri[3], p)
        c3 == Cross(tri[3], tri[1], p)
    IN (c1 >= 0 /\ c2 >= 0 /\ c3 >= 0) \/ (c1 <= 0 /\ c2 <= 0 /\ c3 <= 0)

\* What _morph_triangle leaves: the source, the destination, and whether
\* the triangle was composited.
Morphed(src, dst, done) == [src |-> src, dst |-> dst, composited |-> done]

\* _morph_triangle writing the rows of the rectangle over the whole width
\* of the buffer.
MorphTriangle_fullrows(src, dst, src_tri, dst_tri) ==
    LET r1 == BoundingRect(src_tri)
        r2 == BoundingRect(dst_tri)
        c1 == ClipRect(r1, src)
        c2 == ClipRect(r2, dst)
    IN IF r1[3] <= 0 \/ r1[4] <= 0 \/ r2[3] <= 0 \/ r2[4] <= 0 THEN Morphed(src, dst, FALSE)
       ELSE IF c1[3] <= 0 \/ c1[4] <= 0 THEN Morphed(src, dst, FALSE)
       ELSE IF c1[3] # r1[3] \/ c1[4] # r1[4] THEN Morphed(src, dst, FALSE)
       ELSE IF c2[3] # r2[3] \/ c2[4] # r2[4] THEN Morphed(src, dst, FALSE)
       ELSE Morphed(src,
                    [dst EXCEPT !.px =
                        [p \in Pixels(dst.w, dst.h) |->
                            IF p[2] \in r2[2]..(r2[2] + r2[4] - 1)
                              THEN src.px[<<c1[1], c1[2]>>]
                              ELSE dst.px[p]]],
                    TRUE)

\* _morph_triangle (525-599) from a source of one colour: the warped crop
\* has the colour of the source, and the pixels of the destination
\* rectangle under the mask take it.
MorphTriangle(src, dst, src_tri, dst_tri) ==
    LET r1 == BoundingRect(src_tri)
        r2 == BoundingRect(dst_tri)
        c1 == ClipRect(r1, src)
        c2 == ClipRect(r2, dst)
    IN IF r1[3] <= 0 \/ r1[4] <= 0 \/ r2[3] <= 0 \/ r2[4] <= 0 THEN Morphed(src, dst, FALSE)
       ELSE IF c1[3] <= 0 \/ c1[4] <= 0 THEN Morphed(src, dst, FALSE)
       ELSE IF c1[3] # r1[3] \/ c1[4] # r1[4] THEN Morphed(src, dst, FALSE)
       ELSE IF c2[3] # r2[3] \/ c2[4] # r2[4] THEN Morphed(src, dst, FALSE)
       ELSE Morphed(src,
                    [dst EXCEPT !.px =
                        [p \in Pixels(dst.w, dst.h) |->
                            IF p \in RectPixels(r2) /\ InTriangle(p, dst_tri)
                              THEN src.px[<<c1[1], c1[2]>>]
                              ELSE dst.px[p]]],
                    TRUE)

\* The points a triangle vertex is drawn from: the buffer and one pixel
\* around it, numbered row by row.
GridSide == MaxBuf + 2
GridPoint(n) == <<(n % GridSide) - 1, (n \div GridSide) - 1>>
Triangles ==
    {<<GridPoint(t[1]), GridPoint(t[2]), GridPoint(t[3])>> :
        t \in {u \in (0..(GridSide * GridSide - 1)) \X (0..(GridSide * GridSide - 1))
                      \X (0..(GridSide * GridSide - 1)) : u[1] < u[2] /\ u[2] < u[3]}}

\* Source triangles: one inside the source image, one with a vertex left
\* of it.
TriInside == << <<0, 0>>, <<2, 0>>, <<0, 2>> >>
TriLeftOut == << <<-1, 0>>, <<1, 0>>, <<0, 1>> >>
SrcTriangles == {TriInside, TriLeftOut}

\* The triangles of a triangulation warp_image walks through, as pairs
\* <<src_tri, dst_tri>>.
TriLow == << <<0, 0>>, <<2, 2>>, <<0, 2>> >>
TriRightOut == << <<1, 0>>, <<MaxBuf, 1>>, <<1, 2>> >>
WarpPairs == SrcTriangles \X {TriInside, TriLow, TriRightOut}
Triangulations == {<<a>> : a \in WarpPairs} \cup {<<a, b>> : a \in WarpPairs, b \in WarpPairs}

\* image.copy() and image.astype(np.float32): a new array with the pixels
\* of the image.
CopyOf(buf) == [w |-> buf.w, h |-> buf.h, px |-> [p \in Pixels(buf.w, buf.h) |-> buf.px[p]]]

\* The loop of warp_image (286-289) from triangle k on: each turn hands
\* _morph_triangle a fresh float copy of the image and the output buffer.
RECURSIVE WarpLoop(_, _, _, _)
WarpLoop(image, output, tris, k) ==
    IF k > Len(tris) THEN output
    ELSE WarpLoop(image,
                  MorphTriangle(CopyOf(image), output, tris[k][1], tris[k][2]).dst,
                  tris, k + 1)

\* warp_image (265-291) on a heap that holds the image as object 1: the
\* output is a new object 2, and object 2 is returned.
WarpImage(image, tris) ==
    [status |-> "returned",
     heap |-> <<image, WarpLoop(image, CopyOf(image), tris, 1)>>,
     out |-> 2]

\* A caller hands a source image, a destination buffer of another colour
\* and two triangles to _morph_triangle, or an image and a triangulation
\* to warp_image.
InitWarp ==
    /\ MorphIdle /\ AlignIdle /\ SeqIdle /\ WfIdle /\ PipeIdle
    /\ api_pc = "called" /\ api_ret = [status |-> "none"]
    /\ \/ \E src_tri \in SrcTriangles, dst_tri \in Triangles :
             api_call = [fn |-> "_morph_triangle",
                         src |-> Buffer(MaxBuf, MaxBuf, PixMax),
                         dst |-> Buffer(MaxBuf, MaxBuf, 0),
                         src_tri |-> src_tri, dst_tri |-> dst_tri]
       \/ \E tris \in Triangulations :
             api_call = [fn |-> "warp_image", image |-> Buffer(MaxBuf, MaxBuf, PixMax),
                         tris |-> tris]

CallMorphTriangle ==
    /\ api_pc = "called" /\ api_call.fn = "_morph_triangle"
    /\ LET r == MorphTriangle(api_call.src, api_call.dst, api_call.src_tri, api_call.dst_tri)
       IN api_ret' = [status |-> "returned", src |-> r.src, dst |-> r.dst,
                      composited |-> r.composited]
    /\ api_pc' = "done"
    /\ UNCHANGED <<morphVars, alignVars, api_call, seqVars, wfVars, pipeVars>>

CallWarpImage ==
    /\ api_pc = "called" /\ api_call.fn = "warp_image"
    /\ api_ret' = WarpImage(api_call.image, api_call.tris)
    /\ api_pc' = "done"
    /\ UNCHANGED <<morphVars, alignVars, api_call, seqVars, wfVars, pipeVars>>

NextWarp ==
    \/ CallMorphTriangle
    \/ CallWarpImage

SpecWarp == InitWarp /\ [][NextWarp]_vars

\* ------------------------------------------------------- WorkflowManager
\* Everything of the morph step but _should_stop, which run() and stop()
\* write.
morphRest == <<inVars, pc, faults_left, first_image, genVars, loopVars, outVars, encVars,
               stop_pair, total_frames>>
otherVars == <<morphRest, alignVars, apiVars, seqVars, pipeVars>>

\* A step of the workflow (WorkflowStep): enabled, status.
Step(enabled, status) == [enabled |-> enabled, status |-> status]

\* The steps as add_step and enable_step leave them before a run.
StepLists ==
    UNION {[1..n -> {Step(TRUE, "pending"), Step(FALSE, "disabled")}] : n \in 1..MaxSteps}

\* The threads whose run() is past the test of _is_running and not over.
Active(t) == wf_pc[t] \in {"set", "reset", "mkdir", "loop", "turn", "fn", "finish"}

\* A WorkflowManager with its steps; two threads are about to call run(),
\* another may call stop(), and creating the run directory may fail.
InitWorkflow ==
    /\ MorphIdle /\ AlignIdle /\ ApiIdle /\ SeqIdle /\ PipeIdle
    /\ steps \in StepLists
    /\ is_running = FALSE /\ current_step_index = -1
    /\ continue_on_error \in BOOLEAN
    /\ wf_pc = [t \in Runners |-> "idle"] /\ wf_idx = [t \in Runners |-> 1]
    /\ wf_success = [t \in Runners |-> TRUE] /\ wf_ret = [t \in Runners |-> "none"]
    /\ notified = [t \in Runners |-> "none"] /\ invoked = [t \in Runners |-> << >>]
    /\ stop_req = [t \in Runners |-> FALSE] /\ late = [t \in Runners |-> FALSE]
    /\ mk_faults \in 0..1 /\ stops_left \in 0..1

\* Lines 175-177: the test of _is_running; a run that finds it set returns
\* False at once.
RunEnter(t) ==
    /\ wf_pc[t] = "idle"
    /\ IF is_running
         THEN /\ wf_pc' = [wf_pc EXCEPT ![t] = "returned"]
              /\ wf_ret' = [wf_ret EXCEPT ![t] = "false"]
         ELSE /\ wf_pc' = [wf_pc EXCEPT ![t] = "set"]
              /\ UNCHANGED wf_ret
    /\ UNCHANGED <<otherVars, should_stop, steps, is_running, current_step_index,
                   continue_on_error, wf_idx, wf_success, notified, invoked, stop_req, late,
                   mk_faults, stops_left>>

\* Lines 179-180.
RunSet(t) ==
    /\ wf_pc[t] = "set"
    /\ is_running' = TRUE
    /\ should_stop' = FALSE
    /\ wf_pc' = [wf_pc EXCEPT ![t] = "reset"]
    /\ UNCHANGED <<otherVars, steps, current_step_index, continue_on_error, wf_idx,
                   wf_success, wf_ret, notified, invoked, stop_req, late, mk_faults,
                   stops_left>>

\* _reset_steps (280-287).
ResetSteps(t) ==
    /\ wf_pc[t] = "reset"
    /\ steps' = [k \in 1..Len(steps) |->
                    Step(steps[k].enabled, IF steps[k].enabled THEN "pending" ELSE "disabled")]
    /\ wf_pc' = [wf_pc EXCEPT ![t] = "mkdir"]
    /\ UNCHANGED <<otherVars, should_stop, is_running, current_step_index, continue_on_error,
                   wf_idx, wf_success, wf_ret, notified, invoked, stop_req, late, mk_faults,
                   stops_left>>

\* create_run_directory (139-163, called at line 184) and lines 186-189:
\* os.makedirs may raise, and nothing in run() catches it.
CreateRunDirectory(t) ==
    /\ wf_pc[t] = "mkdir"
    /\ \E created \in (IF mk_faults > 0 THEN BOOLEAN ELSE {TRUE}) :
          IF created
            THEN /\ wf_pc' = [wf_pc EXCEPT ![t] = "loop"]
                 /\ wf_idx' = [wf_idx EXCEPT ![t] = 1]
                 /\ wf_success' = [wf_success EXCEPT ![t] = TRUE]
                 /\ UNCHANGED mk_faults
            ELSE /\ wf_pc' = [wf_pc EXCEPT ![t] = "raised"]
                 /\ mk_faults' = mk_faults - 1
                 /\ UNCHANGED <<wf_idx, wf_success>>
    /\ UNCHANGED <<otherVars, should_stop, steps, is_running, current_step_index,
                   continue_on_error, wf_ret, notified, invoked, stop_req, late, stops_left>>

\* Lines 191-194: the head of the loop and the test of _should_stop.
LoopTest(t) ==
    /\ wf_pc[t] = "loop"
    /\ wf_pc' = [wf_pc EXCEPT ![t] =
                    IF wf_idx[t] > Len(steps) \/ should_stop THEN "finish" ELSE "turn"]
    /\ UNCHANGED <<otherVars, should_stop, steps, is_running, current_step_index,
                   continue_on_error, wf_idx, wf_success, wf_ret, notified, invoked,
                   stop_req, late, mk_faults, stops_left>>

\* Lines 196-204 and 237-242: the step becomes the current one; a disabled
\* step is skipped, an enabled one is set RUNNING and its function called.
StepTurn(t) ==
    /\ wf_pc[t] = "turn"
    /\ current_step_index' = wf_idx[t] - 1
    /\ IF ~steps[wf_idx[t]].enabled
         THEN /\ steps' = [steps EXCEPT ![wf_idx[t]].status = "skipped"]
              /\ wf_idx' = [wf_idx EXCEPT ![t] = wf_idx[t] + 1]
              /\ wf_pc' = [wf_pc EXCEPT ![t] = "loop"]
              /\ UNCHANGED <<invoked, late>>
         ELSE /\ steps' = [steps EXCEPT ![wf_idx[t]].status = "running"]
              /\ invoked' = [invoked EXCEPT ![t] = Append(invoked[t], wf_idx[t])]
              /\ late' = [late EXCEPT ![t] = late[t] \/ stop_req[t]]
              /\ wf_pc' = [wf_pc EXCEPT ![t] = "fn"]
              /\ UNCHANGED wf_idx
    /\ UNCHANGED <<otherVars, should_stop, is_running, continue_on_error, wf_success, wf_ret,
                   notified, stop_req, mk_faults, stops_left>>

\* Lines 253-273 and 206-210: the function of the step returns or raises.
StepFunction(t) ==
    /\ wf_pc[t] = "fn"
    /\ \E step_success \in BOOLEAN :
          /\ steps' = [steps EXCEPT ![wf_idx[t]].status =
                          IF step_success THEN "completed" ELSE "error"]
          /\ wf_success' = [wf_success EXCEPT ![t] = wf_success[t] /\ step_success]
          /\ IF ~step_success /\ ~continue_on_error
               THEN /\ wf_pc' = [wf_pc EXCEPT ![t] = "finish"]
                    /\ UNCHANGED wf_idx
               ELSE /\ wf_pc' = [wf_pc EXCEPT ![t] = "loop"]
                    /\ wf_idx' = [wf_idx EXCEPT ![t] = wf_idx[t] + 1]
    /\ UNCHANGED <<otherVars, should_stop, is_running, current_step_index, continue_on_error,
                   wf_ret, notified, invoked, stop_req, late, mk_faults, stops_left>>

\* "true" or "false" for a Boolean.
BoolName(b) == IF b THEN "true" ELSE "false"

\* Lines 212-225: the run is over, the callbacks are told, success is
\* returned.
RunFinish(t) ==
    /\ wf_pc[t] = "finish"
    /\ is_running' = FALSE
    /\ current_step_index' = -1
    /\ notified' = [notified EXCEPT ![t] = BoolName(wf_success[t])]
    /\ wf_ret' = [wf_ret EXCEPT ![t] = BoolName(wf_success[t])]
    /\ wf_pc' = [wf_pc EXCEPT ![t] = "returned"]
    /\ UNCHANGED <<otherVars, should_stop, steps, continue_on_error, wf_idx, wf_success,
                   invoked, stop_req, late, mk_faults, stops_left>>

\* stop() (275-278), called from the thread of the user interface.
WfStop ==
    /\ stops_left > 0
    /\ \E t \in Runners : Active(t)
    /\ should_stop' = TRUE
    /\ stop_req' = [t \in Runners |-> stop_req[t] \/ Active(t)]
    /\ stops_left' = stops_left - 1
    /\ UNCHANGED <<otherVars, steps, is_running, current_step_index, continue_on_error,
                   wf_pc, wf_idx, wf_success, wf_ret, notified, invoked, late, mk_faults>>

NextWorkflow ==
    \/ \E t \in Runners : RunEnter(t)
    \/ \E t \in Runners : RunSet(t)
    \/ \E t \in Runners : ResetSteps(t)
    \/ \E t \in Runners : CreateRunDirectory(t)
    \/ \E t \in Runners : LoopTest(t)
    \/ \E t \in Runners : StepTurn(t)
    \/ \E t \in Runners : StepFunction(t)
    \/ \E t \in Runners : RunFinish(t)
    \/ WfStop

SpecWorkflow == InitWorkflow /\ [][NextWorkflow]_vars

\* ================================================= the pipes to ffmpeg
\* VideoEncoder streaming frames to an ffmpeg child process through three
\* operating-system pipes (video_encoder.py lines 94-99).  Each pipe has a
\* bounded buffer: a write to a full pipe blocks until the other end reads.
\* The command line (lines 73-91) silences nothing (no -loglevel, no
\* -nostats), so ffmpeg writes its banner and its periodic statistics to
\* stderr; nothing reads stderr before finish_encoding (line 169).

encRest == <<morphVars, alignVars, apiVars, seqVars, wfVars>>

InitEncode ==
    /\ MorphIdle /\ AlignIdle /\ ApiIdle /\ SeqIdle /\ WfIdle
    /\ pw_pc = "idle" /\ pw_left \in 1..MaxFrames
    /\ stdin_fill = 0 /\ stderr_fill = 0 /\ ff_pc = "none"

\* start_encoding, lines 94-99: Popen with stdin, stdout and stderr piped.
PipeStartEncoding ==
    /\ pw_pc = "idle"
    /\ pw_pc' = "write" /\ ff_pc' = "reading"
    /\ UNCHANGED <<encRest, pw_left, stdin_fill, stderr_fill>>

\* write_frame, lines 113-122, called once per frame by the morph step:
\* nothing is written once the process has exited (lines 113-115);
\* otherwise the JPEG goes into stdin (line 120), at once when the pipe has
\* room, and the call blocks in the write when it has none.
PipeWriteFrame ==
    /\ pw_pc = "write" /\ pw_left > 0
    /\ IF ff_pc = "exited"
         THEN pw_left' = pw_left - 1 /\ UNCHANGED <<pw_pc, stdin_fill>>
         ELSE IF stdin_fill < StdinCap
                THEN /\ stdin_fill' = stdin_fill + 1
                     /\ pw_left' = pw_left - 1
                     /\ UNCHANGED pw_pc
                ELSE pw_pc' = "blocked" /\ UNCHANGED <<pw_left, stdin_fill>>
    /\ UNCHANGED <<encRest, stderr_fill, ff_pc>>

\* The blocked write of line 120 goes on when ffmpeg has read from stdin.
WriteUnblock ==
    /\ pw_pc = "blocked" /\ ff_pc # "exited" /\ stdin_fill < StdinCap
    /\ stdin_fill' = stdin_fill + 1
    /\ pw_left' = pw_left - 1
    /\ pw_pc' = "write"
    /\ UNCHANGED <<encRest, stderr_fill, ff_pc>>

\* The blocked write fails with a broken pipe when ffmpeg has exited; the
\* exception is caught and logged (lines 121-122) and write_frame returns.
WriteBroken ==
    /\ pw_pc = "blocked" /\ ff_pc = "exited"
    /\ pw_left' = pw_left - 1
    /\ pw_pc' = "write"
    /\ UNCHANGED <<encRest, stdin_fill, stderr_fill, ff_pc>>

\* finish_encoding, lines 162-163: stdin is closed and the wait begins.
PipeFinishEncoding ==
    /\ pw_pc = "write" /\ pw_left = 0
    /\ pw_pc' = "finish"
    /\ UNCHANGED <<encRest, pw_left, stdin_fill, stderr_fill, ff_pc>>

\* ffmpeg takes a frame out of its stdin.
FfmpegRead ==
    /\ ff_pc = "reading" /\ stdin_fill > 0
    /\ stdin_fill' = stdin_fill - 1
    /\ UNCHANGED <<encRest, pw_pc, pw_left, stderr_fill, ff_pc>>

\* ffmpeg writes a log record (banner, statistics) to stderr: into the pipe
\* when it has room; when it is full the write blocks, and ffmpeg with it.
FfmpegLog ==
    /\ ff_pc = "reading"
    /\ IF stderr_fill < StderrCap
         THEN stderr_fill' = stderr_fill + 1 /\ UNCHANGED ff_pc
         ELSE ff_pc' = "logging" /\ UNCHANGED stderr_fill
    /\ UNCHANGED <<encRest, pw_pc, pw_left, stdin_fill>>

\* ffmpeg reaches the end of its input once stdin is closed and drained,
\* writes the file and exits.
FfmpegEOF ==
    /\ ff_pc = "reading" /\ pw_pc = "finish" /\ stdin_fill = 0
    /\ ff_pc' = "exited"
    /\ UNCHANGED <<encRest, pw_pc, pw_left, stdin_fill, stderr_fill>>

\* ffmpeg gives up on its own (codec not built in, output not writable).
FfmpegFails ==
    /\ ff_pc = "reading"
    /\ ff_pc' = "exited"
    /\ UNCHANGED <<encRest, pw_pc, pw_left, stdin_fill, stderr_fill>>

\* finish_encoding, lines 163-172: the wait returns when ffmpeg has exited.
WaitReturns ==
    /\ pw_pc = "finish" /\ ff_pc = "exited"
    /\ pw_pc' = "done"
    /\ UNCHANGED <<encRest, pw_left, stdin_fill, stderr_fill, ff_pc>>

\* finish_encoding, lines 174-178: the wait times out and ffmpeg is killed.
WaitTimeout ==
    /\ pw_pc = "finish" /\ ff_pc # "exited"
    /\ pw_pc' = "done" /\ ff_pc' = "exited"
    /\ UNCHANGED <<encRest, pw_left, stdin_fill, stderr_fill>>

NextEncode ==
    \/ PipeStartEncoding
    \/ PipeWriteFrame
    \/ WriteUnblock
    \/ WriteBroken
    \/ PipeFinishEncoding
    \/ FfmpegRead
    \/ FfmpegLog
    \/ FfmpegEOF
    \/ FfmpegFails
    \/ WaitReturns
    \/ WaitTimeout

SpecEncode == InitEncode /\ [][NextEncode]_vars

\* The writer runs whenever it can, and so does ffmpeg: it reads its stdin
\* whenever it is not blocked itself.  How often ffmpeg logs, and whether it
\* fails, is left to the environment.
EncodeFairness ==
    /\ WF_vars(PipeStartEncoding)
    /\ WF_vars(PipeWriteFrame)
    /\ WF_vars(WriteUnblock)
    /\ WF_vars(WriteBroken)
    /\ WF_vars(PipeFinishEncoding)
    /\ WF_vars(FfmpegRead)
    /\ WF_vars(FfmpegEOF)
    /\ WF_vars(WaitReturns)
    /\ WF_vars(WaitTimeout)

SpecEncodeFair == SpecEncode /\ EncodeFairness

\* ===================================================== properties
\* The images of the list that can be decoded, in list order.
RECURSIVE LoadableFrom(_)
LoadableFrom(k) ==
    IF k > NumImages THEN << >>
    ELSE IF images[k].loadable THEN <<k>> \o LoadableFrom(k + 1)
    ELSE LoadableFrom(k + 1)
Loadables == LoadableFrom(1)

\* The positions in emitted of the frames of a pair, transition or pause.
TransitionFrames(pair) ==
    {j \in 1..Len(emitted) : emitted[j].pair = pair /\ emitted[j].kind # "pause"}
PauseFrames(pair) ==
    {j \in 1..Len(emitted) : emitted[j].pair = pair /\ emitted[j].kind = "pause"}

\* The frame loop of morph_faces ran to its end.
LoopOver == pc = "finish" \/ total_frames >= 0

\* The ImageData objects still referenced (by the generator or by the loop
\* variables of morph_faces) whose decoded image is set, plus first_image.
LoadedImages ==
    {i \in 1..NumImages : hold[i] /\ i \in {g_prev, g_cur, c_data1, c_data2}}
LoadedCount == Cardinality(LoadedImages) + (IF first_image THEN 1 ELSE 0)

\* ---------------------------------------------------------------- C1
\* C1: while morph_faces consumes image_pair_generator, at most two
\* decoded source images are held loaded at any moment, whatever the
\* length of the list.
C1_AtMostTwoLoaded == LoadedCount <= 2

\* ---------------------------------------------------------------- C2
\* C2: once a stop was requested during the morph step, no frame of a pair
\* later than the one under way at the request reaches the sink.
C2_NoFrameOfLaterPairAfterStop ==
    should_stop =>
        \A k \in 1..Len(emitted) : k \notin dropped => emitted[k].pair <= stop_pair

\* ---------------------------------------------------------------- C3
\* C3: during the parallel alignment no detector is in use by two tasks
\* at once, and no detector slot is created more than once.
C3_DetectorExclusive ==
    /\ \A i, j \in 1..NumAlign :
          (i # j /\ al_pc[i] = "use" /\ al_pc[j] = "use") => held[i] # held[j]
    /\ \A i, j \in 1..NumAlign :
          (i # j /\ made[i] /\ made[j]) => ThreadId(i) # ThreadId(j)

\* ---------------------------------------------------------------- C4
\* C4: after the parallel alignment aligned_images lists the outputs in
\* the order of the inputs, one for every input that could be decoded,
\* whatever the order the tasks completed in.
C4_OriginalOrder ==
    al_phase = "extracted" =>
        /\ \A a, b \in 1..Len(aligned_images) : a < b => aligned_images[a] < aligned_images[b]
        /\ Range(aligned_images) = {i \in 1..NumAlign : al_images[i] # "unloadable"}

\* Two outputs at least, and a task completed before the task of an
\* earlier input.
C4_Witness ==
    /\ al_phase = "extracted" /\ out_of_order
    /\ Len(aligned_images) >= 2

\* ---------------------------------------------------------------- C5
\* C5 as stated: for two images the step writes N + M frames.
C5_WritesNPlusM ==
    (NumImages = 2 /\ Len(Loadables) = 2 /\ LoopOver) => Len(Sink) = N + M

\* C5: for two images that can be decoded, once the frame loop is over the
\* step has handed M + N + M frames to write_frame: M pause frames on the
\* first image, the N frames of the transition in order, M pause frames;
\* the count it returns is N + 2M.
C5_WritesInitialPauseTransitionPause ==
    (NumImages = 2 /\ Len(Loadables) = 2 /\ LoopOver) =>
        /\ frame_count = N + 2 * M
        /\ Len(emitted) = N + 2 * M
        /\ \A j \in 1..M : emitted[j] = Frame(0, "pause", j - 1, NoAlpha, NoAlpha, pix[1])
        /\ \A j \in 1..N : /\ emitted[M + j].pair = 1
                           /\ emitted[M + j].kind # "pause"
                           /\ emitted[M + j].i = j - 1
        /\ \A j \in 1..M : /\ emitted[M + N + j].pair = 1
                           /\ emitted[M + N + j].kind = "pause"
        /\ total_frames \in {-1, N + 2 * M}

C5_Witness ==
    /\ NumImages = 2 /\ Len(Loadables) = 2
    /\ N >= 1 /\ M >= 1
    /\ total_frames = N + 2 * M

\* ---------------------------------------------------------------- C6
\* C6 as stated: a pause frame repeats the last frame emitted for the
\* transition of its pair.
C6_PauseRepeatsLastTransitionFrame ==
    \A j \in 1..Len(emitted) :
        (emitted[j].kind = "pause" /\ emitted[j].pair >= 1) =>
            \A k \in TransitionFrames(emitted[j].pair) :
                emitted[k].i = N - 1 => emitted[j].px = emitted[k].px

\* C6: a pause frame of a pair shows the second image of the pair, for
\* every blend mode and every easing function.
C6_PauseShowsSecondImage ==
    \A j \in 1..Len(emitted) :
        (emitted[j].kind = "pause" /\ emitted[j].pair >= 1) =>
            emitted[j].px = pix[Loadables[emitted[j].pair + 1]]

\* A geometric morph of two frames in additive mode from grey to black,
\* followed by its pause.
C6_Witness ==
    /\ pc = "returned" /\ path = "morph" /\ blend_mode = "additive"
    /\ N >= 2 /\ M >= 1
    /\ pix[1] = 100 /\ pix[2] = 0
    /\ PauseFrames(1) # {}

\* ---------------------------------------------------------------- C7
\* C7: every finished pair has exactly N transition frames; they are a
\* cross-fade when one of its two images has no landmarks and a geometric
\* morph when both have landmarks that validate and triangulate; a pair
\* without landmarks never makes the step raise; and a step that returns
\* has rendered every pair of consecutive decodable images.
C7_LandmarklessPairCrossFades ==
    /\ \A k \in 1..pair_idx :
          LET l1 == images[Loadables[k]].lm
              l2 == images[Loadables[k + 1]].lm
          IN /\ Cardinality(TransitionFrames(k)) = N
             /\ {emitted[j].i : j \in TransitionFrames(k)} = 0..(N - 1)
             /\ (l1.none \/ l2.none) =>
                    \A j \in TransitionFrames(k) : emitted[j].kind = "dissolve"
             /\ (~l1.none /\ ~l2.none /\ ValidateInputs(l1, l2)
                   /\ ~TriangulationRaises(AvgLandmarks2(l1, l2))) =>
                    \A j \in TransitionFrames(k) : emitted[j].kind = "morph"
    /\ (pc = "raised" /\ enc_process) =>
          ~(images[g_prev].lm.none \/ images[g_cur].lm.none)
    /\ total_frames >= 0 => pair_idx = Len(Loadables) - 1

\* A run that ended with a geometric morph and a cross-fade for want of
\* landmarks.
C7_Witness ==
    /\ pc = "returned" /\ pair_idx = 2 /\ N >= 2
    /\ \E k \in 1..2 : \A j \in TransitionFrames(k) : emitted[j].kind = "morph"
    /\ \E k \in 1..2 :
          /\ images[Loadables[k]].lm.none \/ images[Loadables[k + 1]].lm.none
          /\ \A j \in TransitionFrames(k) : emitted[j].kind = "dissolve"

\* ---------------------------------------------------------------- C8
\* C8: a pair whose triangulation raises does not end the step in error.
C8_GeometryFailureDegrades ==
    path = "raise" => pc \notin {"raised", "wf_error"}

\* ---------------------------------------------------------------- C9
\* C9: morph_faces never returns a frame count while a frame it counted
\* did not reach the sink.
C9_SuccessCountsWrittenFramesOnly ==
    total_frames >= 0 => (dropped = {} /\ total_frames = Len(Sink))

\* --------------------------------------------------------------- C10
\* C10: whenever morph_faces has raised after the encoder was started,
\* stdin is closed or the process killed, and the encoder holds no
\* process.
C10_RaiseReleasesEncoder ==
    (pc \in {"raised", "wf_error"} /\ proc # "none") =>
        /\ ~stdin_open \/ proc = "killed"
        /\ ~enc_process
        /\ proc # "running"

\* --------------------------------------------------------------- C11
\* C11: finish_encoding always returns; when it does the process has
\* exited or was killed and the encoder holds no process; and a process
\* killed after the wait makes morph_faces raise without reporting a
\* video.
C11_FinishAlwaysReturns ==
    /\ [][(pc = "finish" /\ pc' # "finish") =>
            /\ proc' \in {"exited_ok", "exited_err", "killed"}
            /\ ~enc_process' /\ ~stdin_open'
            /\ proc' = "killed" => (pc' = "raised" /\ total_frames' = -1)]_vars
    /\ [](proc = "killed" => (pc \in {"raised", "wf_error"} /\ total_frames = -1))
    /\ (pc = "finish" ~> pc \in {"returned", "raised"})

\* The wait timed out after frames were written.
C11_Witness ==
    /\ proc = "killed" /\ pc = "raised" /\ ~enc_process
    /\ frame_count >= 1

\* --------------------------------------------------------------- C12
\* C12 as stated: for every N >= 1 the alphas of a transition strictly
\* increase from 0 and the last frame has alpha = 1.
C12_LastAlphaIsOne ==
    \A j \in 1..Len(emitted) :
        (emitted[j].kind # "pause" /\ emitted[j].i = N - 1) =>
            emitted[j].alpha[1] = emitted[j].alpha[2]

\* C12: frame i of a transition of N frames is synthesized at alpha =
\* i / max(1, N - 1): for N >= 2 the alphas are i/(N-1), strictly
\* increasing from 0 to 1; for N = 1 the only frame has alpha 0.
C12_AlphaSchedule ==
    \A j \in 1..Len(emitted) :
        emitted[j].kind # "pause" =>
            LET a == emitted[j].alpha
            IN /\ a[2] > 0
               /\ IF N = 1 THEN a[1] = 0
                  ELSE a[1] * (N - 1) = emitted[j].i * a[2]
               /\ emitted[j].i = 0 => a[1] = 0
               /\ (N >= 2 /\ emitted[j].i = N - 1) => a[1] = a[2]
               /\ \A k \in 1..(j - 1) :
                     (emitted[k].kind # "pause" /\ emitted[k].pair = emitted[j].pair) =>
                         emitted[k].alpha[1] * a[2] < a[1] * emitted[k].alpha[2]

\* A whole geometric morph and a whole cross-fade of two frames or more.
C12_Witness ==
    /\ pc = "returned" /\ N >= 2
    /\ Cardinality(TransitionFrames(1)) = N
    /\ \E j \in TransitionFrames(1) :
          emitted[j].i = N - 1 /\ emitted[j].alpha[1] = emitted[j].alpha[2]

\* --------------------------------------------------------------- C13
\* C13: whenever the validation of a pair fails, stream_morph_frames and
\* morph_pair return the cross-fade of the two images (num_frames frames,
\* or one) and do not raise.
C13_ValidationFailureCrossFades ==
    (/\ api_pc = "done" /\ api_call.fn \in {"stream_morph_frames", "morph_pair"}
     /\ ~ValidateAll(api_call.im1, api_call.im2, api_call.l1, api_call.l2)) =>
        /\ api_ret.status = "returned"
        /\ Len(api_ret.frames) = (IF api_call.fn = "morph_pair" THEN 1 ELSE api_call.n)
        /\ \A k \in 1..Len(api_ret.frames) : api_ret.frames[k].kind = "dissolve"

\* --------------------------------------------------------------- C14
\* C14: _compute_transformation on a point set of zero spread fails with
\* a DegenerateGeometry error and returns no transform.
C14_ZeroSpreadFailsExplicitly ==
    (/\ api_pc = "done" /\ api_call.fn = "_compute_transformation"
     /\ Spread2(api_call.points1) = 0 \/ Spread2(api_call.points2) = 0) =>
        api_ret.status = "DegenerateGeometry"

\* --------------------------------------------------------------- C15
\* C15: for every point set P of non-zero spread,
\* _compute_transformation(P, P) is the identity.
C15_SelfAlignmentIsIdentity ==
    (/\ api_pc = "done" /\ api_call.fn = "_compute_transformation"
     /\ api_call.points1 = api_call.points2
     /\ Spread2(api_call.points1) > 0) =>
        IsIdentity(api_ret)

\* --------------------------------------------------------------- C16
\* C16: for each of the six easing functions the eased alpha of a frame
\* synthesized at alpha = 0 is exactly 0 and the eased alpha of a frame
\* synthesized at alpha = 1 is exactly 1.
C16_EasingEndpoints ==
    \A j \in 1..Len(emitted) :
        emitted[j].kind # "pause" =>
            /\ emitted[j].eased[2] > 0
            /\ emitted[j].alpha[1] = 0 => emitted[j].eased[1] = 0
            /\ emitted[j].alpha[1] = emitted[j].alpha[2] => emitted[j].eased[1] = emitted[j].eased[2]

\* A bounce transition whose first frame was eased from 0 and whose last
\* frame was eased from 1.
C16_Witness ==
    /\ easing = "bounce" /\ pc = "returned"
    /\ \E j \in TransitionFrames(1) : emitted[j].alpha[1] = 0 /\ emitted[j].eased[1] = 0
    /\ \E j \in TransitionFrames(1) :
          /\ emitted[j].alpha[1] = emitted[j].alpha[2]
          /\ emitted[j].eased[1] = emitted[j].eased[2]

\* --------------------------------------------------------------- C17
\* C17: in alpha blend mode a frame blended at eased alpha 0 is the first
\* image unchanged and a frame blended at eased alpha 1 is the second
\* image unchanged.
C17_AlphaBlendEndpoints ==
    \A j \in 1..Len(emitted) :
        (emitted[j].kind = "morph" /\ blend_mode = "alpha") =>
            /\ emitted[j].eased[1] = 0 => emitted[j].px = pix[1]
            /\ emitted[j].eased[1] = emitted[j].eased[2] => emitted[j].px = pix[2]

\* A geometric morph in alpha mode from grey to white, blended at 0 and
\* at 1.
C17_Witness ==
    /\ blend_mode = "alpha" /\ path = "morph" /\ pc = "returned"
    /\ pix[1] = 100 /\ pix[2] = PixMax
    /\ \E j \in TransitionFrames(1) : emitted[j].eased[1] = 0 /\ emitted[j].px = 100
    /\ \E j \in TransitionFrames(1) :
          emitted[j].eased[1] = emitted[j].eased[2] /\ emitted[j].px = PixMax

\* --------------------------------------------------------------- C18
\* C18: cross_dissolve(image1, image2, n) on two images returns exactly n
\* frames, each of the width and height of image1, for every n >= 0 and
\* also when image2 has another width or height than image1.
C18_CrossDissolveCountAndShape ==
    (/\ api_pc = "done" /\ api_call.fn = "cross_dissolve"
     /\ api_call.im1.ndim = 3 /\ api_call.im2.ndim = 3) =>
        /\ api_ret.status = "returned"
        /\ Len(api_ret.frames) = api_call.n
        /\ \A k \in 1..Len(api_ret.frames) :
              /\ api_ret.frames[k].ndim = 3
              /\ api_ret.frames[k].w = api_call.im1.w
              /\ api_ret.frames[k].h = api_call.im1.h

\* A cross-dissolve of MaxN frames from a 2x2 image to a 4x2 image.
C18_Witness ==
    /\ api_pc = "done" /\ api_call.fn = "cross_dissolve"
    /\ api_call.im1 = Img(2, 2, 0) /\ api_call.im2 = Img(4, 2, PixMax)
    /\ api_call.n = MaxN
    /\ api_ret.status = "returned" /\ Len(api_ret.frames) = MaxN
    /\ api_ret.frames[MaxN].w = 2 /\ api_ret.frames[MaxN].px = PixMax

\* --------------------------------------------------------------- C19
\* The frames of the pairs are written in sequence: pair numbers never
\* decrease along the sink, and inside a pair the transition frames come
\* in increasing frame index, then the pause frames.
SinkInSequence ==
    \A j \in 1..Len(Sink), k \in 1..Len(Sink) :
        j < k =>
            /\ Sink[j].pair <= Sink[k].pair
            /\ Sink[j].pair = Sink[k].pair =>
                  /\ Sink[j].kind = "pause" => Sink[k].kind = "pause"
                  /\ (Sink[j].kind = "pause") = (Sink[k].kind = "pause") =>
                        Sink[j].i < Sink[k].i

\* A frame written for pair k is made from the k-th and the (k+1)-th
\* decodable image of the input list.
WritesPairInListOrder ==
    (Len(emitted') > Len(emitted) /\ emitted'[Len(emitted')].pair > 0) =>
        LET k == emitted'[Len(emitted')].pair
        IN /\ k < Len(Loadables)
           /\ c_data1 = Loadables[k]
           /\ c_data2 = Loadables[k + 1]

\* C19: frames reach the video sink in sequence order: pairs are processed
\* in the order of the input image list, and all frames of pair k (its
\* transition frames in increasing frame index, then its pause frames) are
\* written before any frame of pair k+1.
C19_FramesInSequenceOrder ==
    /\ []SinkInSequence
    /\ [][WritesPairInListOrder]_vars

\* Three decodable images, both pairs written with transition and pause
\* frames, the run returned.
C19_Witness ==
    /\ pc = "returned" /\ Len(Loadables) = 3 /\ N >= 2 /\ M >= 1
    /\ Len(Sink) = M + 2 * (N + M)
    /\ Sink[Len(Sink)].pair = 2 /\ Sink[Len(Sink)].kind = "pause"
    /\ Sink[M + 1].pair = 1 /\ Sink[M + 1].i = 0

\* --------------------------------------------------------------- C20
\* The most recent input before input i that align_to_reference aligned
\* (0: none).
LastAligned(i) ==
    LET earlier == {0} \cup {j \in 1..(i - 1) : sq_images[j] = "ok"}
    IN CHOOSE j \in earlier : \A m \in earlier : m <= j

\* The inputs the loop has written a file for, in input order.
RECURSIVE WrittenFrom(_)
WrittenFrom(k) ==
    IF k >= sq_idx \/ k > Len(sq_images) THEN << >>
    ELSE IF sq_images[k] \in {"noface", "ok"} THEN <<k>> \o WrittenFrom(k + 1)
    ELSE WrittenFrom(k + 1)

\* In overlay mode align_faces takes the sequential path and writes its
\* files in input order.
OverlayRunsInInputOrder ==
    (overlay /\ sq_pc # "dispatch") =>
        /\ sq_pc # "parallel"
        /\ Len(aligned_files) = Len(WrittenFrom(1))
        /\ \A k \in 1..Len(aligned_files) : aligned_files[k].idx = WrittenFrom(1)[k]

\* C20 as stated: whenever overlay mode is enabled, alignment runs
\* sequentially in input order regardless of the parallel flag, the image
\* count and the thread count, and each image is composited against the
\* most recent successfully aligned output of an earlier input.
C20_EveryImageComposited ==
    /\ OverlayRunsInInputOrder
    /\ overlay =>
          \A k \in 1..Len(aligned_files) :
              aligned_files[k].against = LastAligned(aligned_files[k].idx)

\* C20, amended: whenever overlay mode is enabled, alignment runs
\* sequentially in input order regardless of the parallel flag, the image
\* count and the thread count; each image with a detected face is
\* composited against the most recent aligned output of an earlier input
\* (the first one against nothing), and an image without a detected face is
\* written as it is, composited against nothing.
C20_OverlaySequential ==
    /\ OverlayRunsInInputOrder
    /\ overlay =>
          \A k \in 1..Len(aligned_files) :
              /\ aligned_files[k].kind = "aligned" =>
                    /\ sq_images[aligned_files[k].idx] = "ok"
                    /\ aligned_files[k].against = LastAligned(aligned_files[k].idx)
              /\ aligned_files[k].kind = "raw" =>
                    /\ sq_images[aligned_files[k].idx] = "noface"
                    /\ aligned_files[k].against = 0

\* An overlay run asked to be parallel, over MinParallel images: two
\* aligned images around one without a face and one that cannot be decoded.
C20_Witness ==
    /\ overlay /\ parallel /\ sq_pc = "returned"
    /\ sq_threads = MaxThreads
    /\ sq_images = <<"ok", "noface", "ok", "unloadable", "ok">>
    /\ Len(aligned_files) = 4
    /\ aligned_files[2] = AlignedFile(2, "raw", 0)
    /\ aligned_files[3] = AlignedFile(3, "aligned", 1)
    /\ aligned_files[4] = AlignedFile(5, "aligned", 3)

\* --------------------------------------------------------------- C21
\* The eight landmark groups, as sets of indices.
LandmarkGroups ==
    <<Range(JAW_POINTS), Range(RIGHT_BROW_POINTS), Range(LEFT_BROW_POINTS),
      Range(NOSE_POINTS), Range(RIGHT_EYE_POINTS), Range(LEFT_EYE_POINTS),
      Range(MOUTH_POINTS), Range(INNER_MOUTH_POINTS)>>

\* C21: the landmark index groups are pairwise disjoint subsets of 0..67
\* with sizes jaw 17, each eye 6 and nose 8; ALIGN_POINTS is exactly the
\* union of the eyebrow, eye, nose and mouth groups, with no jaw index
\* (0..16) and no index twice, so the points selected with it from a
\* detected face are distinct landmarks off the jaw line.
C21_LandmarkGroups ==
    /\ \A a \in 1..8, b \in 1..8 : a # b => LandmarkGroups[a] \cap LandmarkGroups[b] = {}
    /\ \A a \in 1..8 : LandmarkGroups[a] \subseteq 0..(NumLandmarks - 1)
    /\ Len(JAW_POINTS) = 17 /\ Len(RIGHT_EYE_POINTS) = 6 /\ Len(LEFT_EYE_POINTS) = 6
    /\ Len(NOSE_POINTS) = 8
    /\ Range(ALIGN_POINTS) =
          Range(RIGHT_BROW_POINTS) \cup Range(LEFT_BROW_POINTS) \cup Range(RIGHT_EYE_POINTS)
          \cup Range(LEFT_EYE_POINTS) \cup Range(NOSE_POINTS) \cup Range(MOUTH_POINTS)
    /\ Range(ALIGN_POINTS) \cap 0..16 = {}
    /\ Cardinality(Range(ALIGN_POINTS)) = Len(ALIGN_POINTS)
    /\ (api_pc = "done" /\ api_call.fn = "align_points") =>
          /\ Len(api_ret.points) = Len(ALIGN_POINTS)
          /\ Cardinality(Range(api_ret.points)) = Len(api_ret.points)
          /\ \A k \in 1..Len(api_ret.points) : api_ret.points[k][1] \notin 0..16

\* The alignment points of a detected face were selected: 43 of them, the
\* first one landmark 22.
C21_Witness ==
    /\ api_pc = "done" /\ api_call.fn = "align_points"
    /\ Len(api_ret.points) = 43
    /\ api_ret.points[1][1] = 22

\* --------------------------------------------------------------- C22
\* C22: _get_boundary_points returns exactly 8 points of 2 coordinates for
\* every image shape, and for every image of height and width at least 2
\* each of the 8 points lies in [0, w-1] x [0, h-1].
C22_BoundaryPointsInside ==
    (api_pc = "done" /\ api_call.fn = "_get_boundary_points") =>
        /\ api_ret.status = "returned"
        /\ Len(api_ret.points) = 8
        /\ \A k \in 1..Len(api_ret.points) : Len(api_ret.points[k]) = 2
        /\ (api_call.h >= 2 /\ api_call.w >= 2) =>
              \A k \in 1..Len(api_ret.points) :
                  /\ api_ret.points[k][1] \in 0..(api_call.w - 1)
                  /\ api_ret.points[k][2] \in 0..(api_call.h - 1)

\* The boundary points of a shape of the smallest width of the claim and
\* the largest height modelled.
C22_Witness ==
    /\ api_pc = "done" /\ api_call.fn = "_get_boundary_points"
    /\ api_call.h = MaxDim /\ api_call.w = 2
    /\ api_ret.points[4] = <<1, MaxDim - 1>>
    /\ api_ret.points[5] = <<0, 1>>

\* --------------------------------------------------------------- C23
\* The destination rectangle of the call, and what is left of it inside
\* the destination buffer.
DstRect == BoundingRect(api_call.dst_tri)
DstClip == ClipRect(DstRect, api_call.dst)
SrcRectInside ==
    LET r == BoundingRect(api_call.src_tri)
    IN RectPixels(r) \subseteq Pixels(api_call.src.w, api_call.src.h)

\* C23: in _morph_triangle, when the destination triangle's bounding
\* rectangle lies partially outside the destination buffer, the rectangle
\* is clipped to the buffer and the in-bounds part of the warped triangle
\* is still composited; the triangle is skipped only when the clipped
\* region is empty or the triangle is degenerate.
C23_PartlyOutsideIsClipped ==
    (/\ api_pc = "done" /\ api_call.fn = "_morph_triangle"
     /\ SrcRectInside
     /\ ~Collinear(api_call.dst_tri)
     /\ DstClip[3] > 0 /\ DstClip[4] > 0) =>
        /\ api_ret.composited
        /\ \A p \in RectPixels(DstClip) :
              InTriangle(p, api_call.dst_tri) => api_ret.dst.px[p] = PixMax

\* --------------------------------------------------------------- C24
\* C24: _morph_triangle changes pixels of the destination buffer only
\* inside the bounding rectangle of the destination triangle and never
\* modifies the source image; warp_image leaves its input image unmodified
\* and returns a separate buffer.
C24_WritesOnlyInsideRect ==
    /\ (api_pc = "done" /\ api_call.fn = "_morph_triangle") =>
          /\ api_ret.src = api_call.src
          /\ api_ret.dst.w = api_call.dst.w /\ api_ret.dst.h = api_call.dst.h
          /\ \A p \in Pixels(api_call.dst.w, api_call.dst.h) :
                p \notin RectPixels(DstRect) => api_ret.dst.px[p] = api_call.dst.px[p]
    /\ (api_pc = "done" /\ api_call.fn = "warp_image") =>
          /\ api_ret.heap[1] = api_call.image
          /\ api_ret.out # 1
          /\ api_ret.heap[api_ret.out].w = api_call.image.w
          /\ api_ret.heap[api_ret.out].h = api_call.image.h

\* A triangle in the upper left corner was composited: its pixels took the
\* colour of the source and the opposite corner kept its own.
C24_Witness ==
    /\ api_pc = "done" /\ api_call.fn = "_morph_triangle"
    /\ api_call.dst_tri = << <<0, 0>>, <<1, 0>>, <<0, 1>> >>
    /\ api_ret.composited
    /\ api_ret.dst.px[<<0, 0>>] = PixMax
    /\ api_ret.dst.px[<<MaxBuf - 1, MaxBuf - 1>>] = 0
    /\ api_ret.dst.px[<<1, 1>>] = 0

\* --------------------------------------------------------------- C25
\* The threads whose run() is executing: _is_running set by them, their
\* steps being reset or run.
Executing == {t \in Runners : wf_pc[t] \in {"reset", "mkdir", "loop", "turn", "fn"}}

\* C25: at most one workflow execution is active at a time: of two threads
\* calling run() on the same WorkflowManager at most one executes steps,
\* and the other returns False without resetting or running any step.
C25_OneExecutionAtATime == Cardinality(Executing) <= 1

\* --------------------------------------------------------------- C26
\* C26: run() returns True, and notifies on_workflow_complete with success
\* = True, only if every enabled step reached COMPLETED in that run; a run
\* interrupted by stop() before all enabled steps were executed does not
\* report success.
C26_SuccessMeansAllCompleted ==
    \A t \in Runners :
        (wf_ret[t] = "true" \/ notified[t] = "true") =>
            \A k \in 1..Len(steps) : steps[k].enabled => k \in Range(invoked[t])

\* --------------------------------------------------------------- C27
\* C27: after any call to run() terminates, whether it returns or raises
\* (also when creating the run directory fails), is_running is False and
\* current_step is None, so a subsequent run() is accepted.
C27_TerminatedRunLeavesManagerIdle ==
    (/\ \A t \in Runners : wf_pc[t] \in {"idle", "returned", "raised"}
     /\ \E t \in Runners : wf_pc[t] \in {"returned", "raised"}) =>
        /\ is_running = FALSE
        /\ current_step_index = -1

\* --------------------------------------------------------------- C28
\* C28: within a run, step functions are invoked strictly in the order the
\* steps were added, one at a time, and a step's function is invoked only
\* if the step is enabled, no stop was requested before it, and no earlier
\* step of this run ended in ERROR while continue_on_error is false; a step
\* whose function was not invoked never has status RUNNING, COMPLETED or
\* ERROR.
C28_StepsInvokedInOrder ==
    /\ \A t \in Runners :
          /\ \A a \in 1..Len(invoked[t]), b \in 1..Len(invoked[t]) :
                a < b => invoked[t][a] < invoked[t][b]
          /\ \A a \in 1..Len(invoked[t]) : steps[invoked[t][a]].enabled
          /\ ~late[t]
          /\ (wf_pc[t] = "fn" /\ ~continue_on_error) => wf_success[t]
    /\ Cardinality({t \in Runners : wf_pc[t] = "fn"}) <= 1
    /\ \A k \in 1..Len(steps) :
          steps[k].status \in {"running", "completed", "error"} =>
              \E t \in Runners : k \in Range(invoked[t])

\* --------------------------------------------------------------- C29
\* C29: after the align step, sequential or parallel and for any mix of
\* unloadable images, undetected faces, failed alignments and failed worker
\* tasks, context.landmarks and context.aligned_images have the same length
\* and context.landmarks[i] is the landmark set (or None) of the image
\* stored at context.aligned_images[i].
C29_LandmarksMatchAlignedImages ==
    /\ al_phase = "extracted" =>
          /\ Len(landmarks) = Len(aligned_images)
          /\ \A i \in 1..Min(Len(landmarks), Len(aligned_images)) :
                landmarks[i].src = aligned_images[i]
    /\ sq_pc = "returned" =>
          /\ Len(landmarks_list) = Len(aligned_files)
          /\ \A i \in 1..Min(Len(landmarks_list), Len(aligned_files)) :
                landmarks_list[i].idx = aligned_files[i].idx

\* --------------------------------------------------------------- C30
\* C30: the streaming encode never deadlocks: with an encoder that consumes
\* its stdin whenever it is not blocked itself, and stdout/stderr pipes of
\* bounded capacity that are read only at finalization, every write_frame
\* call eventually returns and the morph step eventually reaches
\* finish_encoding.
C30_StreamingNeverDeadlocks ==
    /\ (pw_pc = "blocked") ~> (pw_pc = "write")
    /\ (pw_pc = "write") ~> (pw_pc = "finish")

\* The state the streaming stops in: write_frame blocked on a full stdin
\* pipe, ffmpeg blocked on a full stderr pipe.
EncodeDeadlock ==
    /\ pw_pc = "blocked" /\ stdin_fill = StdinCap
    /\ ff_pc = "logging" /\ stderr_fill = StderrCap

=============================================================================
